---- MODULE Spec2Model ----
(***************************************************************************)
(* BOMSyncTool: the canonical tabular dataset (ParseResult), its role      *)
(* accessors, the diff engine (compare_boms), the merge engine             *)
(* (update_and_append_boms), the column-role classifier (build_bom_rows),  *)
(* the rule engine's field predicate (value_matches) and the expansion of  *)
(* reference ranges (expand_reference).                                    *)
(*                                                                         *)
(* Text is modelled as a sequence of one-character strings, so that        *)
(* trimming, joining and the parsing of column ids are computed, not       *)
(* assumed.  Rust's Option<T> is a sequence of length 0 (None) or 1        *)
(* (Some).  Row and column indices are 0-based as in the source.           *)
(***************************************************************************)
EXTENDS Integers, Sequences, FiniteSets, TLC

VARIABLES parse_a, parse_b, op, diffs, merged, raw, built,
          match_call, match_result, parse, expanded,
          ipc_rules, exceptions, named, dataset, steps

vars == <<parse_a, parse_b, op, diffs, merged, raw, built,
          match_call, match_result, parse, expanded,
          ipc_rules, exceptions, named, dataset, steps>>

(***************************************************************************)
(* Option<T>                                                               *)
(***************************************************************************)
None == <<>>

Some(x) == <<x>>

IsSome(o) == Len(o) = 1

Unwrap(o) == o[1]

(***************************************************************************)
(* Text                                                                    *)
(***************************************************************************)
WhitespaceChars == {" ", "\t", "\n", "\r", "\f"}

DigitChars == {"0", "1", "2", "3", "4", "5", "6", "7", "8", "9"}

DigitValue(c) ==
  CASE c = "0" -> 0 [] c = "1" -> 1 [] c = "2" -> 2 [] c = "3" -> 3
    [] c = "4" -> 4 [] c = "5" -> 5 [] c = "6" -> 6 [] c = "7" -> 7
    [] c = "8" -> 8 [] c = "9" -> 9

DigitChar(d) == <<"0", "1", "2", "3", "4", "5", "6", "7", "8", "9">>[d + 1]

RECURSIVE trim_start(_)
trim_start(s) ==
  IF s = <<>> THEN s
  ELSE IF Head(s) \in WhitespaceChars THEN trim_start(Tail(s)) ELSE s

RECURSIVE trim_end(_)
trim_end(s) ==
  IF s = <<>> THEN s
  ELSE IF s[Len(s)] \in WhitespaceChars THEN trim_end(SubSeq(s, 1, Len(s) - 1))
  ELSE s

\* str::trim
trim(s) == trim_end(trim_start(s))

\* [String]::join(sep)
RECURSIVE join(_, _)
join(parts, sep) ==
  IF parts = <<>> THEN <<>>
  ELSE IF Len(parts) = 1 THEN parts[1]
  ELSE parts[1] \o sep \o join(Tail(parts), sep)

CommaSpace == <<",", " ">>

\* str::strip_prefix
strip_prefix(s, p) ==
  IF Len(s) >= Len(p) /\ SubSeq(s, 1, Len(p)) = p
  THEN Some(SubSeq(s, Len(p) + 1, Len(s)))
  ELSE None

RECURSIVE DigitsValue(_, _)
DigitsValue(s, acc) ==
  IF s = <<>> THEN acc ELSE DigitsValue(Tail(s), acc * 10 + DigitValue(Head(s)))

\* str::parse::<usize>: an optional '+', then one or more decimal digits
parse_usize(s) ==
  LET digits == IF s # <<>> /\ Head(s) = "+" THEN Tail(s) ELSE s
  IN  IF digits = <<>> \/ \E i \in 1..Len(digits) : digits[i] \notin DigitChars
      THEN None
      ELSE Some(DigitsValue(digits, 0))

\* format!("{}", n) of a usize
RECURSIVE format_usize(_)
format_usize(n) ==
  IF n < 10 THEN <<DigitChar(n)>>
  ELSE format_usize(n \div 10) \o <<DigitChar(n % 10)>>

ColPrefix == <<"c", "o", "l", "-">>

\* format!("col-{}", idx)
col_id(idx) == ColPrefix \o format_usize(idx)

\* col_id.strip_prefix("col-")?.parse::<usize>().ok()
parse_col_id(id) ==
  LET rest == strip_prefix(id, ColPrefix)
  IN  IF IsSome(rest) THEN parse_usize(Unwrap(rest)) ELSE None

(***************************************************************************)
(* ParseResult accessors                                                   *)
(***************************************************************************)
\* the cells of the role's columns that exist in the row (filter_map)
RECURSIVE RoleCells(_, _)
RoleCells(row, ids) ==
  IF ids = <<>> THEN <<>>
  ELSE LET idx == parse_col_id(Head(ids))
           rest == RoleCells(row, Tail(ids))
       IN  IF IsSome(idx) /\ Unwrap(idx) < Len(row)
           THEN <<row[Unwrap(idx) + 1]>> \o rest
           ELSE rest

RECURSIVE TrimAll(_)
TrimAll(cells) ==
  IF cells = <<>> THEN <<>> ELSE <<trim(Head(cells))>> \o TrimAll(Tail(cells))

NonEmpty(s) == s # <<>>

\* get_values without the filter that drops the empty values
get_values_KeepBlank(pr, row_index, role) ==
  IF row_index >= Len(pr.rows) THEN <<>>
  ELSE IF role \notin DOMAIN pr.column_roles THEN <<>>
  ELSE TrimAll(RoleCells(pr.rows[row_index + 1], pr.column_roles[role]))

get_values(pr, row_index, role) ==
  IF row_index >= Len(pr.rows) THEN <<>>
  ELSE IF role \notin DOMAIN pr.column_roles THEN <<>>
  ELSE SelectSeq(TrimAll(RoleCells(pr.rows[row_index + 1], pr.column_roles[role])),
                 NonEmpty)

get_ref(pr, row_index) == join(get_values(pr, row_index, "ref"), CommaSpace)

FirstOrDefault(values) == IF values = <<>> THEN <<>> ELSE values[1]

get_part_no(pr, row_index) == FirstOrDefault(get_values(pr, row_index, "part_no"))

get_manufacturer(pr, row_index) ==
  FirstOrDefault(get_values(pr, row_index, "manufacturer"))

get_value(pr, row_index) == FirstOrDefault(get_values(pr, row_index, "value"))

(***************************************************************************)
(* HashMap                                                                 *)
(***************************************************************************)
EmptyMap == <<>>

\* HashMap::insert: an existing entry is overwritten
MapInsert(map, k, v) == [x \in (DOMAIN map) \cup {k} |-> IF x = k THEN v ELSE map[x]]

Contains(seq, x) == \E i \in 1..Len(seq) : seq[i] = x

Min(a, b) == IF a < b THEN a ELSE b

Max(a, b) == IF a > b THEN a ELSE b

(***************************************************************************)
(* Diff engine                                                             *)
(***************************************************************************)
\* the loop that fills map_a / map_b: Reference -> row index
RECURSIVE RefIndexMap(_, _, _)
RefIndexMap(pr, idx, map) ==
  IF idx >= Len(pr.rows) THEN map
  ELSE LET ref_value == get_ref(pr, idx)
       IN  RefIndexMap(pr, idx + 1,
                       IF ref_value # <<>> THEN MapInsert(map, ref_value, idx) ELSE map)

\* changed_columns.extend(col_ids) when the role's values differ
RoleChange(pa, role, value_a, value_b) ==
  IF value_a # value_b /\ role \in DOMAIN pa.column_roles
  THEN pa.column_roles[role]
  ELSE <<>>

\* PositionalChanges comparing the raw cell of A with the trimmed cell of B
RECURSIVE PositionalChanges_RawA(_, _, _, _, _)
PositionalChanges_RawA(row_a, row_b, col_idx, min_len, changed_columns) ==
  IF col_idx >= min_len THEN changed_columns
  ELSE LET val_a == row_a[col_idx + 1]
           val_b == trim(row_b[col_idx + 1])
           id == col_id(col_idx)
       IN  PositionalChanges_RawA(row_a, row_b, col_idx + 1, min_len,
             IF val_a # val_b /\ ~Contains(changed_columns, id)
             THEN Append(changed_columns, id)
             ELSE changed_columns)

\* PositionalChanges without the "already recorded" test
RECURSIVE PositionalChanges_NoDedup(_, _, _, _, _)
PositionalChanges_NoDedup(row_a, row_b, col_idx, min_len, changed_columns) ==
  IF col_idx >= min_len THEN changed_columns
  ELSE LET val_a == trim(row_a[col_idx + 1])
           val_b == trim(row_b[col_idx + 1])
       IN  PositionalChanges_NoDedup(row_a, row_b, col_idx + 1, min_len,
             IF val_a # val_b
             THEN Append(changed_columns, col_id(col_idx))
             ELSE changed_columns)


\* the loop over 0..min_len
RECURSIVE PositionalChanges(_, _, _, _, _)
PositionalChanges(row_a, row_b, col_idx, min_len, changed_columns) ==
  IF col_idx >= min_len THEN changed_columns
  ELSE LET val_a == trim(row_a[col_idx + 1])
           val_b == trim(row_b[col_idx + 1])
           id == col_id(col_idx)
       IN  PositionalChanges(row_a, row_b, col_idx + 1, min_len,
             IF val_a # val_b /\ ~Contains(changed_columns, id)
             THEN Append(changed_columns, id)
             ELSE changed_columns)

\* the loop over min_len..max(len_a, len_b)
RECURSIVE LengthChanges(_, _, _)
LengthChanges(col_idx, max_len, changed_columns) ==
  IF col_idx >= max_len THEN changed_columns
  ELSE LengthChanges(col_idx + 1, max_len, Append(changed_columns, col_id(col_idx)))

\* compare_rows reporting every matched pair as modified
compare_rows_AlwaysModified(pa, idx_a, pb, idx_b) ==
  LET by_role == RoleChange(pa, "part_no", get_part_no(pa, idx_a), get_part_no(pb, idx_b))
      row_a == pa.rows[idx_a + 1]
      row_b == pb.rows[idx_b + 1]
      min_len == Min(Len(row_a), Len(row_b))
      by_pos == PositionalChanges(row_a, row_b, 0, min_len, by_role)
  IN  <<"modified", LengthChanges(min_len, Max(Len(row_a), Len(row_b)), by_pos)>>

compare_rows(pa, idx_a, pb, idx_b) ==
  LET by_role == RoleChange(pa, "part_no", get_part_no(pa, idx_a), get_part_no(pb, idx_b))
              \o RoleChange(pa, "manufacturer",
                            get_manufacturer(pa, idx_a), get_manufacturer(pb, idx_b))
              \o RoleChange(pa, "value", get_value(pa, idx_a), get_value(pb, idx_b))
      row_a == pa.rows[idx_a + 1]
      row_b == pb.rows[idx_b + 1]
      min_len == Min(Len(row_a), Len(row_b))
      by_pos == PositionalChanges(row_a, row_b, 0, min_len, by_role)
      changed_columns ==
        IF Len(row_a) # Len(row_b)
        THEN LengthChanges(min_len, Max(Len(row_a), Len(row_b)), by_pos)
        ELSE by_pos
  IN  <<IF changed_columns = <<>> THEN "unchanged" ELSE "modified", changed_columns>>

DiffRow(status, a_index, b_index, ref_value, changed_columns) ==
  [status |-> status, a_index |-> a_index, b_index |-> b_index,
   ref_value |-> ref_value, changed_columns |-> changed_columns]

\* CompareFromA without the skip of rows whose Reference is empty
RECURSIVE CompareFromA_NoEmptySkip(_, _, _, _, _)
CompareFromA_NoEmptySkip(pa, pb, map_b, idx_a, out) ==
  IF idx_a >= Len(pa.rows) THEN out
  ELSE LET ref_a == get_ref(pa, idx_a)
       IN  CompareFromA_NoEmptySkip(pa, pb, map_b, idx_a + 1,
             IF ref_a \in DOMAIN map_b
             THEN LET idx_b == map_b[ref_a]
                      cmp == compare_rows(pa, idx_a, pb, idx_b)
                  IN  Append(out, DiffRow(cmp[1], Some(idx_a), Some(idx_b), ref_a, cmp[2]))
             ELSE Append(out, DiffRow("removed", Some(idx_a), None, ref_a, <<>>)))

\* step 2: the loop over the rows of A
RECURSIVE CompareFromA(_, _, _, _, _)
CompareFromA(pa, pb, map_b, idx_a, out) ==
  IF idx_a >= Len(pa.rows) THEN out
  ELSE LET ref_a == get_ref(pa, idx_a)
       IN  CompareFromA(pa, pb, map_b, idx_a + 1,
             IF ref_a = <<>> THEN out
             ELSE IF ref_a \in DOMAIN map_b
             THEN LET idx_b == map_b[ref_a]
                      cmp == compare_rows(pa, idx_a, pb, idx_b)
                  IN  Append(out, DiffRow(cmp[1], Some(idx_a), Some(idx_b), ref_a, cmp[2]))
             ELSE Append(out, DiffRow("removed", Some(idx_a), None, ref_a, <<>>)))

\* AddedFromB without the skip of rows whose Reference is empty
RECURSIVE AddedFromB_NoEmptySkip(_, _, _, _)
AddedFromB_NoEmptySkip(pb, map_a, idx_b, out) ==
  IF idx_b >= Len(pb.rows) THEN out
  ELSE LET ref_b == get_ref(pb, idx_b)
       IN  AddedFromB_NoEmptySkip(pb, map_a, idx_b + 1,
             IF ref_b \notin DOMAIN map_a
             THEN Append(out, DiffRow("added", None, Some(idx_b), ref_b, <<>>))
             ELSE out)


\* step 3: the loop over the rows of B
RECURSIVE AddedFromB(_, _, _, _)
AddedFromB(pb, map_a, idx_b, out) ==
  IF idx_b >= Len(pb.rows) THEN out
  ELSE LET ref_b == get_ref(pb, idx_b)
       IN  AddedFromB(pb, map_a, idx_b + 1,
             IF ref_b # <<>> /\ ref_b \notin DOMAIN map_a
             THEN Append(out, DiffRow("added", None, Some(idx_b), ref_b, <<>>))
             ELSE out)

\* compare_boms emitting the additions before the rows of A
compare_boms_AddedFirst(pa, pb) ==
  LET map_a == RefIndexMap(pa, 0, EmptyMap)
      map_b == RefIndexMap(pb, 0, EmptyMap)
  IN  CompareFromA(pa, pb, map_b, 0, AddedFromB(pb, map_a, 0, <<>>))


compare_boms(pa, pb) ==
  LET map_a == RefIndexMap(pa, 0, EmptyMap)
      map_b == RefIndexMap(pb, 0, EmptyMap)
  IN  AddedFromB(pb, map_a, 0, CompareFromA(pa, pb, map_b, 0, <<>>))

(***************************************************************************)
(* Merge engine                                                            *)
(***************************************************************************)
\* step 1: Reference -> queue of the overlay's row indices (entry().or_default().push_back)
RECURSIVE RefQueueMap(_, _, _)
RefQueueMap(pr, idx, map) ==
  IF idx >= Len(pr.rows) THEN map
  ELSE LET ref_value == get_ref(pr, idx)
       IN  RefQueueMap(pr, idx + 1,
             IF ref_value = <<>> THEN map
             ELSE MapInsert(map, ref_value,
                            IF ref_value \in DOMAIN map
                            THEN Append(map[ref_value], idx) ELSE <<idx>>))

\* while merged_row.len() < col_idx { merged_row.push(String::new()) }
RECURSIVE PadTo(_, _)
PadTo(row, len) == IF Len(row) < len THEN PadTo(Append(row, <<>>), len) ELSE row

\* MergeCells testing cell_b.is_empty() instead of cell_b.trim().is_empty()
RECURSIVE MergeCells_NoTrim(_, _, _)
MergeCells_NoTrim(merged_row, row_b, col_idx) ==
  IF col_idx >= Len(row_b) THEN merged_row
  ELSE LET cell_b == row_b[col_idx + 1]
       IN  MergeCells_NoTrim(
             IF cell_b # <<>>
             THEN IF col_idx < Len(merged_row)
                  THEN [merged_row EXCEPT ![col_idx + 1] = cell_b]
                  ELSE Append(PadTo(merged_row, col_idx), cell_b)
             ELSE merged_row,
             row_b, col_idx + 1)

\* MergeCells that never extends the base row
RECURSIVE MergeCells_NoExtend(_, _, _)
MergeCells_NoExtend(merged_row, row_b, col_idx) ==
  IF col_idx >= Len(row_b) THEN merged_row
  ELSE LET cell_b == row_b[col_idx + 1]
       IN  MergeCells_NoExtend(
             IF trim(cell_b) # <<>> /\ col_idx < Len(merged_row)
             THEN [merged_row EXCEPT ![col_idx + 1] = cell_b]
             ELSE merged_row,
             row_b, col_idx + 1)


\* the loop over the overlay row's cells
RECURSIVE MergeCells(_, _, _)
MergeCells(merged_row, row_b, col_idx) ==
  IF col_idx >= Len(row_b) THEN merged_row
  ELSE LET cell_b == row_b[col_idx + 1]
       IN  MergeCells(
             IF trim(cell_b) # <<>>
             THEN IF col_idx < Len(merged_row)
                  THEN [merged_row EXCEPT ![col_idx + 1] = cell_b]
                  ELSE Append(PadTo(merged_row, col_idx), cell_b)
             ELSE merged_row,
             row_b, col_idx + 1)

\* MergeFromA skipping the base rows whose Reference is empty, as compare_boms does
RECURSIVE MergeFromA_SkipEmptyRef(_, _, _, _)
MergeFromA_SkipEmptyRef(pa, pb, idx_a, st) ==
  IF idx_a >= Len(pa.rows) THEN st
  ELSE LET row_a == pa.rows[idx_a + 1]
           ref_a == get_ref(pa, idx_a)
       IN  MergeFromA_SkipEmptyRef(pa, pb, idx_a + 1,
             IF ref_a = <<>> THEN st
             ELSE IF ref_a \in DOMAIN st.map_b /\ st.map_b[ref_a] # <<>>
             THEN LET idx_b == Head(st.map_b[ref_a])
                  IN  [map_b |-> [st.map_b EXCEPT ![ref_a] = Tail(@)],
                       used_indices |-> st.used_indices \cup {idx_b},
                       merged_rows |-> Append(st.merged_rows,
                                              MergeCells(row_a, pb.rows[idx_b + 1], 0)),
                       pairs |-> Append(st.pairs, Some(idx_b))]
             ELSE [st EXCEPT !.merged_rows = Append(@, row_a),
                             !.pairs = Append(@, None)])


\* MergeFromA reading the front of the queue without removing it
RECURSIVE MergeFromA_NoPop(_, _, _, _)
MergeFromA_NoPop(pa, pb, idx_a, st) ==
  IF idx_a >= Len(pa.rows) THEN st
  ELSE LET row_a == pa.rows[idx_a + 1]
           ref_a == get_ref(pa, idx_a)
       IN  MergeFromA_NoPop(pa, pb, idx_a + 1,
             IF ref_a \in DOMAIN st.map_b /\ st.map_b[ref_a] # <<>>
             THEN LET idx_b == Head(st.map_b[ref_a])
                  IN  [map_b |-> st.map_b,
                       used_indices |-> st.used_indices \cup {idx_b},
                       merged_rows |-> Append(st.merged_rows,
                                              MergeCells(row_a, pb.rows[idx_b + 1], 0)),
                       pairs |-> Append(st.pairs, Some(idx_b))]
             ELSE [st EXCEPT !.merged_rows = Append(@, row_a),
                             !.pairs = Append(@, None)])

\* step 2: the loop over the rows of A; st = [map_b, used_indices, merged_rows, pairs]
\* (pairs records which overlay row each base row was merged with, for the properties)
RECURSIVE MergeFromA(_, _, _, _)
MergeFromA(pa, pb, idx_a, st) ==
  IF idx_a >= Len(pa.rows) THEN st
  ELSE LET row_a == pa.rows[idx_a + 1]
           ref_a == get_ref(pa, idx_a)
       IN  MergeFromA(pa, pb, idx_a + 1,
             IF ref_a \in DOMAIN st.map_b /\ st.map_b[ref_a] # <<>>
             THEN LET idx_b == Head(st.map_b[ref_a])
                  IN  [map_b |-> [st.map_b EXCEPT ![ref_a] = Tail(@)],
                       used_indices |-> st.used_indices \cup {idx_b},
                       merged_rows |-> Append(st.merged_rows,
                                              MergeCells(row_a, pb.rows[idx_b + 1], 0)),
                       pairs |-> Append(st.pairs, Some(idx_b))]
             ELSE [st EXCEPT !.merged_rows = Append(@, row_a),
                             !.pairs = Append(@, None)])

\* AppendUnused leaving out the overlay rows whose Reference is empty
RECURSIVE AppendUnused_SkipEmptyRef(_, _, _, _)
AppendUnused_SkipEmptyRef(pb, used_indices, idx_b, merged_rows) ==
  IF idx_b >= Len(pb.rows) THEN merged_rows
  ELSE AppendUnused_SkipEmptyRef(pb, used_indices, idx_b + 1,
         IF idx_b \notin used_indices /\ get_ref(pb, idx_b) # <<>>
         THEN Append(merged_rows, pb.rows[idx_b + 1]) ELSE merged_rows)

\* step 3: the overlay rows that were never used
RECURSIVE AppendUnused(_, _, _, _)
AppendUnused(pb, used_indices, idx_b, merged_rows) ==
  IF idx_b >= Len(pb.rows) THEN merged_rows
  ELSE AppendUnused(pb, used_indices, idx_b + 1,
         IF idx_b \notin used_indices
         THEN Append(merged_rows, pb.rows[idx_b + 1]) ELSE merged_rows)

MergeState(pa, pb) ==
  MergeFromA(pa, pb, 0,
             [map_b |-> RefQueueMap(pb, 0, EmptyMap), used_indices |-> {},
              merged_rows |-> <<>>, pairs |-> <<>>])

\* update_and_append_boms taking the role map and the column order from the overlay
update_and_append_boms_OverlayRoles(pa, pb) ==
  LET st == MergeState(pa, pb)
      merged_rows == AppendUnused(pb, st.used_indices, 0, st.merged_rows)
  IN  [rows |-> merged_rows,
       column_roles |-> pb.column_roles,
       column_order |-> pb.column_order,
       errors |-> <<>>,
       headers |-> pa.headers,
       columns |-> pa.columns,
       row_numbers |-> [i \in 1..Len(merged_rows) |-> i],
       structured_errors |-> None]


\* update_and_append_boms carrying the base's diagnostics and row numbers over
update_and_append_boms_KeepDiagnostics(pa, pb) ==
  LET st == MergeState(pa, pb)
      merged_rows == AppendUnused(pb, st.used_indices, 0, st.merged_rows)
  IN  [rows |-> merged_rows,
       column_roles |-> pa.column_roles,
       column_order |-> pa.column_order,
       errors |-> pa.errors,
       headers |-> pa.headers,
       columns |-> pa.columns,
       row_numbers |-> pa.row_numbers,
       structured_errors |-> pa.structured_errors]

update_and_append_boms(pa, pb) ==
  LET st == MergeState(pa, pb)
      merged_rows == AppendUnused(pb, st.used_indices, 0, st.merged_rows)
  IN  [rows |-> merged_rows,
       column_roles |-> pa.column_roles,
       column_order |-> pa.column_order,
       errors |-> <<>>,
       headers |-> pa.headers,
       columns |-> pa.columns,
       row_numbers |-> [i \in 1..Len(merged_rows) |-> i],
       structured_errors |-> None]

(***************************************************************************)
(* Datasets handed to the diff and merge commands                          *)
(***************************************************************************)
\* the two datasets of one call hold at most MaxRows rows together
MaxRows == 4

RefC1 == <<"C", "1">>

RefC2 == <<"C", "2">>

RefC1Padded == <<" ", "C", "1", " ">>

PN1 == <<"P", "N", "1">>

PN2 == <<"P", "N", "2">>

PN3 == <<"P", "N", "3">>

Blank == <<" ">>

\* rows of one, two and three cells; the last two have a padded and a blank cell
RowPool == { <<RefC1, PN1>>, <<RefC1, PN2>>, <<RefC2, PN3>>, <<Blank, PN1, RefC2>>, <<RefC1Padded>> }

RowLists(n) == UNION {[1..k -> RowPool] : k \in 0..n}

\* two columns: Ref, Part
ShapeRefPart ==
  [headers |-> <<<<"R", "e", "f">>, <<"P", "a", "r", "t">>>>,
   columns |-> <<[id |-> col_id(0), name |-> <<"R", "e", "f">>],
                 [id |-> col_id(1), name |-> <<"P", "a", "r", "t">>]>>,
   column_roles |-> [r \in {"ref", "part_no"} |->
                       IF r = "ref" THEN <<col_id(0)>> ELSE <<col_id(1)>>],
   column_order |-> <<col_id(0), col_id(1)>>,
   errors |-> <<>>,
   structured_errors |-> Some(<<>>)]

\* three columns: Ref1, Part, Ref2, both reference columns carrying the ref role
ShapeTwoRefs ==
  [headers |-> <<<<"R", "e", "f", "1">>, <<"P", "a", "r", "t">>, <<"R", "e", "f", "2">>>>,
   columns |-> <<[id |-> col_id(0), name |-> <<"R", "e", "f", "1">>],
                 [id |-> col_id(1), name |-> <<"P", "a", "r", "t">>],
                 [id |-> col_id(2), name |-> <<"R", "e", "f", "2">>]>>,
   column_roles |-> [r \in {"ref", "part_no"} |->
                       IF r = "ref" THEN <<col_id(0), col_id(2)>> ELSE <<col_id(1)>>],
   column_order |-> <<col_id(0), col_id(2), col_id(1)>>,
   errors |-> <<"warning">>,
   structured_errors |-> None]

\* two columns: Item, Part, no column carrying the ref role
ShapeNoRef ==
  [headers |-> <<<<"I", "t", "e", "m">>, <<"P", "a", "r", "t">>>>,
   columns |-> <<[id |-> col_id(0), name |-> <<"I", "t", "e", "m">>],
                 [id |-> col_id(1), name |-> <<"P", "a", "r", "t">>]>>,
   column_roles |-> [r \in {"part_no"} |-> <<col_id(1)>>],
   column_order |-> <<col_id(1), col_id(0)>>,
   errors |-> <<"warning">>,
   structured_errors |-> None]

\* three columns: Item, Part, Ref, the ref role on the last column only and the
\* part_no role on the second column, then the first
ShapeRefLast ==
  [headers |-> <<<<"I", "t", "e", "m">>, <<"P", "a", "r", "t">>, <<"R", "e", "f">>>>,
   columns |-> <<[id |-> col_id(0), name |-> <<"I", "t", "e", "m">>],
                 [id |-> col_id(1), name |-> <<"P", "a", "r", "t">>],
                 [id |-> col_id(2), name |-> <<"R", "e", "f">>]>>,
   column_roles |-> [r \in {"ref", "part_no"} |->
                       IF r = "ref" THEN <<col_id(2)>> ELSE <<col_id(1), col_id(0)>>],
   column_order |-> <<col_id(2), col_id(1), col_id(0)>>,
   errors |-> <<>>,
   structured_errors |-> Some(<<>>)]

\* the shapes of the base and of the overlay of one call
ShapePairs ==
  { <<ShapeRefPart, ShapeRefPart>>, <<ShapeRefPart, ShapeTwoRefs>>,
    <<ShapeTwoRefs, ShapeTwoRefs>>, <<ShapeNoRef, ShapeRefLast>> }

Dataset(shape, rows) ==
  [rows |-> rows,
   column_roles |-> shape.column_roles,
   column_order |-> shape.column_order,
   errors |-> shape.errors,
   headers |-> shape.headers,
   columns |-> shape.columns,
   row_numbers |-> [i \in 1..Len(rows) |-> i + 1],
   structured_errors |-> shape.structured_errors]

NoDataset == [rows |-> <<>>]

NoCall == [target |-> <<>>, pattern |-> <<>>, match_type |-> <<>>]

(***************************************************************************)
(* The commands                                                            *)
(***************************************************************************)
Init ==
  /\ \E shapes \in ShapePairs :
       \E ra \in RowLists(MaxRows) :
         \E rb \in RowLists(MaxRows - Len(ra)) :
           /\ parse_a = Dataset(shapes[1], ra)
           /\ parse_b = Dataset(shapes[2], rb)
  /\ op = "none"
  /\ diffs = <<>>
  /\ merged = NoDataset
  /\ raw = <<>>
  /\ built = None
  /\ match_call = NoCall
  /\ match_result = None
  /\ parse = NoDataset
  /\ expanded = None
  /\ ipc_rules = <<>>
  /\ exceptions = <<>>
  /\ named = None
  /\ dataset = NoDataset
  /\ steps = 0

\* lib.rs compare_boms
Compare ==
  /\ op = "none"
  /\ op' = "compare_boms"
  /\ diffs' = compare_boms(parse_a, parse_b)
  /\ UNCHANGED <<parse_a, parse_b, merged, raw, built>>
  /\ UNCHANGED <<match_call, match_result, parse, expanded>>
  /\ UNCHANGED <<ipc_rules, exceptions, named, dataset, steps>>

\* lib.rs update_and_append_boms
Merge ==
  /\ op = "none"
  /\ op' = "update_and_append_boms"
  /\ merged' = update_and_append_boms(parse_a, parse_b)
  /\ UNCHANGED <<parse_a, parse_b, diffs, raw, built>>
  /\ UNCHANGED <<match_call, match_result, parse, expanded>>
  /\ UNCHANGED <<ipc_rules, exceptions, named, dataset, steps>>

Next == Compare \/ Merge

Spec == Init /\ [][Next]_vars

(***************************************************************************)
(* Column-role classifier: the shapes of cell values                       *)
(***************************************************************************)
UpperChars ==
  {"A", "B", "C", "D", "E", "F", "G", "H", "I", "J", "K", "L", "M",
   "N", "O", "P", "Q", "R", "S", "T", "U", "V", "W", "X", "Y", "Z"}

LowerChars ==
  {"a", "b", "c", "d", "e", "f", "g", "h", "i", "j", "k", "l", "m",
   "n", "o", "p", "q", "r", "s", "t", "u", "v", "w", "x", "y", "z"}

is_ascii_alphabetic(c) == c \in UpperChars \cup LowerChars

is_ascii_digit(c) == c \in DigitChars

is_ascii_alphanumeric(c) == is_ascii_alphabetic(c) \/ is_ascii_digit(c)

is_whitespace(c) == c \in WhitespaceChars

\* str::split(|c| c == ',' || c == ';')
RECURSIVE split(_, _, _)
split(s, seps, token) ==
  IF s = <<>> THEN <<token>>
  ELSE IF Head(s) \in seps THEN <<token>> \o split(Tail(s), seps, <<>>)
  ELSE split(Tail(s), seps, Append(token, Head(s)))

\* one token of looks_like_reference: "skip" (empty), "no" (return false) or "yes"
ReferenceToken(raw_token) ==
  LET token == trim(raw_token)
  IN  IF token = <<>> THEN "skip"
      ELSE IF ~is_ascii_alphabetic(Head(token)) THEN "no"
      ELSE IF \E i \in 2..Len(token) :
                ~(is_ascii_alphanumeric(token[i]) \/ token[i] \in {"-", "_", "/"})
      THEN "no"
      ELSE IF ~\E i \in 2..Len(token) : is_ascii_digit(token[i]) THEN "no"
      ELSE "yes"

looks_like_reference(value) ==
  LET tokens == split(value, {",", ";"}, <<>>)
  IN  /\ \A i \in 1..Len(tokens) : ReferenceToken(tokens[i]) # "no"
      /\ \E i \in 1..Len(tokens) : ReferenceToken(tokens[i]) = "yes"

looks_like_part_number(value) ==
  /\ value # <<>>
  /\ \A i \in 1..Len(value) :
       is_ascii_alphanumeric(value[i]) \/ value[i] \in {"-", "_", "/", "."}
  /\ \E i \in 1..Len(value) : is_ascii_alphabetic(value[i])
  /\ \E i \in 1..Len(value) : is_ascii_digit(value[i])

CountChars(value, class) == Cardinality({i \in 1..Len(value) : value[i] \in class})

looks_like_manufacturer(value) ==
  LET letters == CountChars(value, UpperChars \cup LowerChars)
      digits == CountChars(value, DigitChars)
      spaces == CountChars(value, WhitespaceChars)
  IN  /\ value # <<>>
      /\ ~looks_like_part_number(value)
      /\ letters > 0
      /\ (spaces > 0 \/ digits = 0 \/ letters >= digits)

\* utils/text.rs find_invalid_char: the first control character other than tab, or
\* character from 0x7f on, of the cell
ControlChars == {"\n", "\r", "\f"}

find_invalid_char(cell) ==
  LET bad == {i \in 1..Len(cell) : cell[i] \in ControlChars}
  IN  IF bad = {} THEN None
      ELSE Some(cell[CHOOSE i \in bad : \A j \in bad : i <= j])

is_blank_row(row) == \A i \in 1..Len(row) : trim(row[i]) = <<>>

NonEmptyCells(row) == {i \in 1..Len(row) : trim(row[i]) # <<>>}

is_data_row(row) ==
  /\ NonEmptyCells(row) # {}
  /\ \E i \in NonEmptyCells(row) : looks_like_reference(trim(row[i]))

is_potential_header(row) ==
  /\ \A i \in NonEmptyCells(row) : ~looks_like_reference(trim(row[i]))
  /\ NonEmptyCells(row) # {}

\* rows: sequence of [line, row]; the index of the first data row
detect_data_start(rows) ==
  LET hits == {i \in 1..Len(rows) : is_data_row(rows[i].row)}
  IN  IF hits = {} THEN None
      ELSE Some((CHOOSE i \in hits : \A j \in hits : i <= j) - 1)

MAX_SAMPLE_ROWS == 50

\* the trimmed cell of a row at a column, "" past the row's end
CellOrEmpty(row, col_idx) == IF col_idx < Len(row) THEN trim(row[col_idx + 1]) ELSE <<>>

\* ColumnStats of one column over the sampled rows
ColumnStats(rows, col_idx) ==
  LET sampled == 1..Min(Len(rows), MAX_SAMPLE_ROWS)
      filled == {r \in sampled : CellOrEmpty(rows[r].row, col_idx) # <<>>}
      Like(Shape(_)) ==
        Cardinality({r \in filled : Shape(CellOrEmpty(rows[r].row, col_idx))})
  IN  [non_empty |-> Cardinality(filled),
       reference_like |-> Like(looks_like_reference),
       part_like |-> Like(looks_like_part_number),
       manufacturer_like |-> Like(looks_like_manufacturer)]

\* stats.iter().enumerate().filter(..).map(|(idx, _)| idx).collect()
FilterColumns(max_columns, keep) ==
  SelectSeq([i \in 1..max_columns |-> i - 1], LAMBDA c : c \in keep)

analyze_columns(rows, max_columns) ==
  LET stats == [c \in 0..(max_columns - 1) |-> ColumnStats(rows, c)]
      Candidates(like) ==
        FilterColumns(max_columns,
                      {c \in DOMAIN stats :
                         stats[c][like] > 0 /\ stats[c][like] * 2 >= stats[c].non_empty})
  IN  [reference_candidates |-> Candidates("reference_like"),
       part_candidates |-> Candidates("part_like"),
       manufacturer_candidates |-> Candidates("manufacturer_like")]

(***************************************************************************)
(* Column-role classifier: diagnostics                                     *)
(* A message is a record of its kind and of the values formatted into it.  *)
(***************************************************************************)
ParseError(message, row, column, severity) ==
  [message |-> message, row |-> row, column |-> column, severity |-> severity]

\* diag = [errors, structured_errors]
push_warning(diag, message, row, column) ==
  [errors |-> Append(diag.errors, message),
   structured_errors |->
     Append(diag.structured_errors, ParseError(message, row, column, "warning"))]

push_error(diag, message, row, column) ==
  [errors |-> Append(diag.errors, message),
   structured_errors |->
     Append(diag.structured_errors, ParseError(message, row, column, "error"))]

\* assign_role taking the first of several candidates
assign_role_PickFirst(label, role_key, candidates, acc) ==
  IF Len(candidates) = 0
  THEN [acc EXCEPT
          !.diag = push_warning(@, [kind |-> "role_not_detected", label |-> label],
                                None, None),
          !.assigned = <<>>]
  ELSE [acc EXCEPT
          !.column_roles = MapInsert(@, role_key, <<col_id(candidates[1])>>),
          !.priority_order = Append(@, candidates[1]),
          !.assigned = <<candidates[1]>>]

\* acc = [column_roles, diag, priority_order, assigned]; assigned is the return value
assign_role(label, role_key, candidates, acc) ==
  IF Len(candidates) = 0
  THEN [acc EXCEPT
          !.diag = push_warning(@, [kind |-> "role_not_detected", label |-> label],
                                None, None),
          !.assigned = <<>>]
  ELSE IF Len(candidates) = 1
  THEN [acc EXCEPT
          !.column_roles = MapInsert(@, role_key, <<col_id(candidates[1])>>),
          !.priority_order = Append(@, candidates[1]),
          !.assigned = <<candidates[1]>>]
  ELSE [acc EXCEPT
          !.diag = push_warning(@, [kind |-> "role_candidates", label |-> label,
                                    columns |-> [i \in 1..Len(candidates) |->
                                                   candidates[i] + 1]],
                                None, None),
          !.assigned = <<>>]

\* validate_rows: the invalid-character loop over the cells of one row
RECURSIVE ValidateCells(_, _, _, _)
ValidateCells(row, line_number, col_idx, diag) ==
  IF col_idx >= Len(row) THEN diag
  ELSE LET invalid_char == find_invalid_char(row[col_idx + 1])
       IN  ValidateCells(row, line_number, col_idx + 1,
             IF IsSome(invalid_char)
             THEN push_warning(diag,
                               [kind |-> "invalid_char", line |-> line_number,
                                column |-> col_idx + 1, char |-> Unwrap(invalid_char)],
                               Some(line_number), Some(col_idx))
             ELSE diag)

\* validate_rows: the loop over ref_indices of one row; acc = [values, diag]
RECURSIVE CollectReferences(_, _, _, _, _)
CollectReferences(row, line_number, ref_indices, k, acc) ==
  IF k > Len(ref_indices) THEN acc
  ELSE LET idx == ref_indices[k]
           missing == [acc EXCEPT !.diag =
                         push_error(@, [kind |-> "reference_missing", line |-> line_number],
                                    Some(line_number), Some(idx))]
       IN  CollectReferences(row, line_number, ref_indices, k + 1,
             IF idx < Len(row) /\ trim(row[idx + 1]) # <<>>
             THEN [acc EXCEPT !.values = Append(@, trim(row[idx + 1]))]
             ELSE missing)

FirstCopied(indices) == IF indices = <<>> THEN None ELSE Some(indices[1])

\* validate_rows: the reference checks of one row, after its references were
\* collected into refs = [values, diag]; returns [seen_refs, diag]
CheckReference(line_number, ref_indices, seen_refs, refs) ==
  LET reference == join(refs.values, CommaSpace)
  IN  IF refs.values = <<>> THEN [seen_refs |-> seen_refs, diag |-> refs.diag]
      ELSE IF reference = <<>>
      THEN [seen_refs |-> seen_refs,
            diag |-> push_warning(refs.diag,
                       [kind |-> "reference_empty", line |-> line_number],
                       Some(line_number), FirstCopied(ref_indices))]
      ELSE IF reference \in seen_refs
      THEN [seen_refs |-> seen_refs,
            diag |-> push_warning(refs.diag,
                       [kind |-> "reference_duplicate", line |-> line_number,
                        reference |-> reference],
                       Some(line_number), FirstCopied(ref_indices))]
      ELSE [seen_refs |-> seen_refs \cup {reference}, diag |-> refs.diag]

\* validate_rows: the part-number check of one row; acc = [seen_refs, diag]
CheckPartNo(row, line_number, part_indices, acc) ==
  IF /\ part_indices # <<>>
     /\ \A k \in 1..Len(part_indices) :
          IF part_indices[k] < Len(row)
          THEN trim(row[part_indices[k] + 1]) = <<>> ELSE TRUE
  THEN [acc EXCEPT !.diag =
          push_warning(@, [kind |-> "part_no_empty", line |-> line_number],
                       Some(line_number), FirstCopied(part_indices))]
  ELSE acc

\* validate_rows: the body of the loop over the rows, after the invalid-character
\* loop left the diagnostics diag
CheckRoles(row, line_number, ref_indices, part_indices, seen_refs, diag) ==
  CheckPartNo(row, line_number, part_indices,
    IF ref_indices = <<>> THEN [seen_refs |-> seen_refs, diag |-> diag]
    ELSE CheckReference(line_number, ref_indices, seen_refs,
           CollectReferences(row, line_number, ref_indices, 1,
                             [values |-> <<>>, diag |-> diag])))

\* validate_rows: the loop over the rows; acc = [seen_refs, diag]
RECURSIVE ValidateFrom(_, _, _, _, _)
ValidateFrom(rows, i, ref_indices, part_indices, acc) ==
  IF i > Len(rows) THEN acc
  ELSE ValidateFrom(rows, i + 1, ref_indices, part_indices,
         CheckRoles(rows[i].row, rows[i].line + 1, ref_indices, part_indices,
                    acc.seen_refs,
                    ValidateCells(rows[i].row, rows[i].line + 1, 0, acc.diag)))

validate_rows(rows, ref_indices, part_indices, diag) ==
  ValidateFrom(rows, 1, ref_indices, part_indices, [seen_refs |-> {}, diag |-> diag]).diag

(***************************************************************************)
(* Column-role classifier: build_bom_rows                                  *)
(***************************************************************************)
Err(message) == [ok |-> FALSE, error |-> message]

Ok(value) == [ok |-> TRUE, value |-> value]

ColumnLabel(n) == <<"C", "o", "l", "u", "m", "n", " ">> \o format_usize(n)

\* the column order without the test for columns already listed
RECURSIVE OrderColumns_Repeat(_, _, _)
OrderColumns_Repeat(candidates, used, column_order) ==
  IF candidates = <<>> THEN column_order
  ELSE OrderColumns_Repeat(Tail(candidates), used,
                           Append(column_order, col_id(Head(candidates))))

\* the priority columns (each once), then every other column in ascending order
RECURSIVE OrderColumns(_, _, _)
OrderColumns(candidates, used, column_order) ==
  IF candidates = <<>> THEN column_order
  ELSE IF Head(candidates) \in used
  THEN OrderColumns(Tail(candidates), used, column_order)
  ELSE OrderColumns(Tail(candidates), used \cup {Head(candidates)},
                    Append(column_order, col_id(Head(candidates))))

SetMax(lens) ==
  IF lens = {} THEN 0 ELSE CHOOSE m \in lens : \A n \in lens : n <= m

\* the name of a column: the header cell, or "Column n" where there is none
HeaderName(header_row, col_idx) ==
  IF IsSome(header_row) /\ col_idx < Len(Unwrap(header_row).row)
                        /\ trim(Unwrap(header_row).row[col_idx + 1]) # <<>>
  THEN trim(Unwrap(header_row).row[col_idx + 1])
  ELSE ColumnLabel(col_idx + 1)

\* build_bom_rows from the validation on; acc is the result of the three assign_role
BuildResult(header_row, data_rows, max_columns, acc, assigned_refs, assigned_parts) ==
  LET diag == validate_rows(data_rows, assigned_refs, assigned_parts, acc.diag)
  IN  Ok([rows |-> [i \in 1..Len(data_rows) |-> data_rows[i].row],
          column_roles |-> acc.column_roles,
          column_order |->
            OrderColumns(acc.priority_order \o [i \in 1..max_columns |-> i - 1],
                         {}, <<>>),
          errors |-> diag.errors,
          headers |-> [i \in 1..max_columns |-> HeaderName(header_row, i - 1)],
          columns |-> [i \in 1..max_columns |->
                         [id |-> col_id(i - 1), name |-> HeaderName(header_row, i - 1)]],
          row_numbers |-> [i \in 1..Len(data_rows) |-> data_rows[i].line + 1],
          structured_errors |-> Some(diag.structured_errors)])

\* build_bom_rows: the assign_role calls for part_no and manufacturer
AssignRest(header_row, data_rows, max_columns, analysis, acc_ref) ==
  LET acc_part == assign_role("PartNumber", "part_no", analysis.part_candidates, acc_ref)
  IN  BuildResult(header_row, data_rows, max_columns,
                  assign_role("Manufacturer", "manufacturer",
                              analysis.manufacturer_candidates, acc_part),
                  acc_ref.assigned, acc_part.assigned)

\* build_bom_rows from the column analysis on
AssignRoles(header_row, data_rows, max_columns, analysis, diag) ==
  AssignRest(header_row, data_rows, max_columns, analysis,
             assign_role("Reference", "ref", analysis.reference_candidates,
                         [column_roles |-> EmptyMap, diag |-> diag,
                          priority_order |-> <<>>, assigned |-> <<>>]))

\* build_bom_rows once the header candidate and the data rows are known
BuildColumns(header_row, data_rows, diag) ==
  LET max_columns ==
        SetMax({Len(data_rows[i].row) : i \in 1..Len(data_rows)}
               \cup {Len(header_row[i].row) : i \in 1..Len(header_row)})
  IN  IF data_rows = <<>> THEN Err("no_data_rows")
      ELSE AssignRoles(header_row, data_rows, max_columns,
                       analyze_columns(data_rows, max_columns), diag)

\* build_bom_rows once the start of the data was looked for
BuildFromStart(indexed_rows, detected_start) ==
  LET data_start == IF IsSome(detected_start) THEN Unwrap(detected_start) ELSE 0
  IN  BuildColumns(
        IF data_start > 0 /\ is_potential_header(indexed_rows[data_start].row)
        THEN Some(indexed_rows[data_start]) ELSE None,
        SubSeq(indexed_rows, data_start + 1, Len(indexed_rows)),
        IF IsSome(detected_start) THEN [errors |-> <<>>, structured_errors |-> <<>>]
        ELSE push_warning([errors |-> <<>>, structured_errors |-> <<>>],
                          [kind |-> "start_not_detected"], None, None))

\* build_bom_rows once the leading blank rows are removed
BuildIndexed(indexed_rows) ==
  IF indexed_rows = <<>> THEN Err("no_valid_rows")
  ELSE BuildFromStart(indexed_rows, detect_data_start(indexed_rows))

\* the loop removing the leading blank rows
RECURSIVE StripLeadingBlank(_)
StripLeadingBlank(indexed_rows) ==
  IF indexed_rows # <<>> /\ is_blank_row(Head(indexed_rows).row)
  THEN StripLeadingBlank(Tail(indexed_rows))
  ELSE indexed_rows

\* build_bom_rows without the removal of the leading blank rows
build_bom_rows_NoStrip(rows) ==
  IF rows = <<>> THEN Err("no_valid_rows")
  ELSE BuildIndexed([i \in 1..Len(rows) |-> [line |-> i - 1, row |-> rows[i]]])

build_bom_rows(rows) ==
  IF rows = <<>> THEN Err("no_valid_rows")
  ELSE BuildIndexed(
         StripLeadingBlank([i \in 1..Len(rows) |-> [line |-> i - 1, row |-> rows[i]]]))

(***************************************************************************)
(* Raw rows handed to the classifier by the decoders                       *)
(***************************************************************************)
\* a raw input holds at most MaxRawRows rows
MaxRawRows == 3

HeaderRefPartVal == << <<"R", "e", "f">>, <<"P", "a", "r", "t">>, <<"V", "a", "l">> >>

RawRowPool ==
  { HeaderRefPartVal,
    << RefC1, <<>>, <<"5", "V">> >>,
    << <<>>, Blank >>,
    << <<"C", "1", ",", "C", "2">>, <<"0", "6", "B">>, <<"M", "u", "r", "a", "t", "a">> >>,
    << <<"C", "3", ";", "C", "4">>, Blank >>,
    << <<"C", "1", "\r">> >>,
    << <<"x">>, <<"C", "5", ",", "C", "1", "6">>, <<"0", "6", "B">> >> }

RawInputs == UNION {[1..k -> RawRowPool] : k \in 0..MaxRawRows}

InitBuild ==
  /\ raw \in RawInputs
  /\ built = None
  /\ op = "none"
  /\ parse_a = NoDataset
  /\ parse_b = NoDataset
  /\ diffs = <<>>
  /\ merged = NoDataset
  /\ match_call = NoCall
  /\ match_result = None
  /\ parse = NoDataset
  /\ expanded = None
  /\ ipc_rules = <<>>
  /\ exceptions = <<>>
  /\ named = None
  /\ dataset = NoDataset
  /\ steps = 0

\* parsers/csv.rs, parsers/excel.rs: the decoded rows are classified
Build ==
  /\ op = "none"
  /\ op' = "build_bom_rows"
  /\ built' = Some(build_bom_rows(raw))
  /\ UNCHANGED <<raw, parse_a, parse_b, diffs, merged>>
  /\ UNCHANGED <<match_call, match_result, parse, expanded>>
  /\ UNCHANGED <<ipc_rules, exceptions, named, dataset, steps>>

NextBuild == Build

SpecBuild == InitBuild /\ [][NextBuild]_vars

(***************************************************************************)
(* Rule engine: the field predicate value_matches                          *)
(***************************************************************************)
UpperSeq ==
  <<"A", "B", "C", "D", "E", "F", "G", "H", "I", "J", "K", "L", "M",
    "N", "O", "P", "Q", "R", "S", "T", "U", "V", "W", "X", "Y", "Z">>

LowerSeq ==
  <<"a", "b", "c", "d", "e", "f", "g", "h", "i", "j", "k", "l", "m",
    "n", "o", "p", "q", "r", "s", "t", "u", "v", "w", "x", "y", "z">>

\* str::to_lowercase
to_lowercase(s) ==
  [i \in 1..Len(s) |->
     IF s[i] \in UpperChars
     THEN LowerSeq[CHOOSE k \in 1..Len(UpperSeq) : UpperSeq[k] = s[i]]
     ELSE s[i]]

starts_with(s, p) == Len(s) >= Len(p) /\ SubSeq(s, 1, Len(p)) = p

ends_with(s, p) == Len(s) >= Len(p) /\ SubSeq(s, Len(s) - Len(p) + 1, Len(s)) = p

\* str::find: the offset of the first occurrence
find(s, p) ==
  LET hits == {i \in 0..(Len(s) - Len(p)) : SubSeq(s, i + 1, i + Len(p)) = p}
  IN  IF hits = {} THEN None ELSE Some(CHOOSE i \in hits : \A j \in hits : i <= j)

str_contains(s, p) == IsSome(find(s, p))

\* the loop of wildcard_match over parts.iter().enumerate()
RECURSIVE WildcardParts(_, _, _, _)
WildcardParts(target, parts, i, current_index) ==
  IF i >= Len(parts) THEN TRUE
  ELSE LET part == parts[i + 1]
       IN  IF part = <<>> THEN WildcardParts(target, parts, i + 1, current_index)
           ELSE IF i = 0
           THEN /\ starts_with(target, part)
                /\ WildcardParts(target, parts, i + 1, Len(part))
           ELSE IF i = Len(parts) - 1 THEN ends_with(target, part)
           ELSE LET found == find(SubSeq(target, current_index + 1, Len(target)), part)
                IN  /\ IsSome(found)
                    /\ WildcardParts(target, parts, i + 1,
                                     current_index + Unwrap(found) + Len(part))

wildcard_match(target, pattern) ==
  IF pattern = <<"*">> THEN TRUE
  ELSE LET parts == split(pattern, {"*"}, <<>>)
       IN  IF Len(parts) = 1 THEN target = pattern
           ELSE WildcardParts(target, parts, 0, 0)

TypeEquals == <<"e", "q", "u", "a", "l", "s">>

TypeContains == <<"c", "o", "n", "t", "a", "i", "n", "s">>

TypeStartsWith == <<"s", "t", "a", "r", "t", "s", "_", "w", "i", "t", "h">>

TypeEndsWith == <<"e", "n", "d", "s", "_", "w", "i", "t", "h">>

TypeWildcard == <<"w", "i", "l", "d", "c", "a", "r", "d">>

value_matches(target, pattern, match_type) ==
  LET target_lower == to_lowercase(target)
      pattern_lower == to_lowercase(pattern)
      kind == to_lowercase(trim(match_type))
  IN  IF kind = TypeEquals THEN target_lower = pattern_lower
      ELSE IF kind = TypeContains THEN str_contains(target_lower, pattern_lower)
      ELSE IF kind = TypeStartsWith THEN starts_with(target_lower, pattern_lower)
      ELSE IF kind = TypeEndsWith THEN ends_with(target_lower, pattern_lower)
      ELSE IF kind = TypeWildcard THEN wildcard_match(target_lower, pattern_lower)
      ELSE IF Contains(pattern, "*") THEN wildcard_match(target_lower, pattern_lower)
      ELSE target_lower = pattern_lower

\* targets and patterns hold at most MaxMatchLen characters
MaxMatchLen == 3

TargetChars == {"a", "b", "A"}

PatternChars == {"a", "B", "*"}

Texts(chars, n) == UNION {[1..k -> chars] : k \in 0..n}

\* the match types of a rule condition: the five names, a padded capitalised one, an
\* unknown one and the empty one
MatchTypes ==
  { TypeEquals, TypeContains, TypeStartsWith, TypeEndsWith, TypeWildcard,
    <<" ", "W", "i", "l", "d", "c", "a", "r", "d", " ">>,
    <<"g", "l", "o", "b">>, <<>> }

InitMatch ==
  /\ \E target \in Texts(TargetChars, MaxMatchLen) :
       \E pattern \in Texts(PatternChars, MaxMatchLen) :
         \E match_type \in MatchTypes :
           match_call = [target |-> target, pattern |-> pattern,
                         match_type |-> match_type]
  /\ match_result = None
  /\ op = "none"
  /\ parse_a = NoDataset
  /\ parse_b = NoDataset
  /\ diffs = <<>>
  /\ merged = NoDataset
  /\ raw = <<>>
  /\ built = None
  /\ parse = NoDataset
  /\ expanded = None
  /\ ipc_rules = <<>>
  /\ exceptions = <<>>
  /\ named = None
  /\ dataset = NoDataset
  /\ steps = 0

\* matchers/helpers.rs condition_matches: one condition of a rule is tested
Match ==
  /\ op = "none"
  /\ op' = "value_matches"
  /\ match_result' = Some(value_matches(match_call.target, match_call.pattern,
                                        match_call.match_type))
  /\ UNCHANGED <<parse_a, parse_b, diffs, merged, raw, built>>
  /\ UNCHANGED <<match_call, parse, expanded>>
  /\ UNCHANGED <<ipc_rules, exceptions, named, dataset, steps>>

NextMatch == Match

SpecMatch == InitMatch /\ [][NextMatch]_vars

(***************************************************************************)
(* Expansion of reference ranges                                           *)
(***************************************************************************)
\* ParseResult::get_column_indices
RECURSIVE get_column_indices_of(_)
get_column_indices_of(ids) ==
  IF ids = <<>> THEN <<>>
  ELSE LET idx == parse_col_id(Head(ids))
       IN  (IF IsSome(idx) THEN <<Unwrap(idx)>> ELSE <<>>)
             \o get_column_indices_of(Tail(ids))

get_column_indices(pr, role) ==
  IF role \in DOMAIN pr.column_roles
  THEN get_column_indices_of(pr.column_roles[role])
  ELSE <<>>

\* ref_value.replace(' ', "")
RemoveSpaces(s) == SelectSeq(s, LAMBDA c : c # " ")

\* str::parse::<u32>: as parse_usize; the numbers of the model stay far below u32::MAX
parse_u32(s) == parse_usize(s)

RECURSIVE AlphabeticPrefixLen(_)
AlphabeticPrefixLen(value) ==
  IF value # <<>> /\ is_ascii_alphabetic(Head(value))
  THEN 1 + AlphabeticPrefixLen(Tail(value))
  ELSE 0

\* (prefix, digits)
split_prefix_digits(value) ==
  LET n == AlphabeticPrefixLen(value)
  IN  <<SubSeq(value, 1, n), SubSeq(value, n + 1, Len(value))>>

\* the part of parse_reference_range after the two sides were split
RangeOfSides(start_side, end_side) ==
  LET start_prefix == start_side[1]
      end_prefix == end_side[1]
      prefix == IF start_prefix # <<>> THEN start_prefix ELSE end_prefix
      start == parse_u32(start_side[2])
      end == parse_u32(end_side[2])
  IN  IF start_side[2] = <<>> \/ end_side[2] = <<>> THEN None
      ELSE IF prefix = <<>> THEN None
      ELSE IF end_prefix # <<>> /\ end_prefix # prefix THEN None
      ELSE IF ~IsSome(start) \/ ~IsSome(end) THEN None
      ELSE Some([prefix |-> prefix, start |-> Unwrap(start), end |-> Unwrap(end)])

parse_reference_range(reference) ==
  LET parts == split(reference, {"-"}, <<>>)
  IN  IF Len(parts) # 2 THEN None
      ELSE IF parts[1] = <<>> \/ parts[2] = <<>> THEN None
      ELSE RangeOfSides(split_prefix_digits(parts[1]), split_prefix_digits(parts[2]))

\* for &col_idx in &ref_indices { if col_idx < new_row.len() { new_row[col_idx] = .. } }
RECURSIVE SetRefCells(_, _, _)
SetRefCells(new_row, ref_indices, text) ==
  IF ref_indices = <<>> THEN new_row
  ELSE LET col_idx == Head(ref_indices)
       IN  SetRefCells(IF col_idx < Len(new_row)
                       THEN [new_row EXCEPT ![col_idx + 1] = text]
                       ELSE new_row,
                       Tail(ref_indices), text)

\* for index in start..=end
RECURSIVE ExpandRange(_, _, _, _, _)
ExpandRange(row, ref_indices, prefix, index, end) ==
  IF index > end THEN <<>>
  ELSE <<SetRefCells(row, ref_indices, prefix \o format_usize(index))>>
         \o ExpandRange(row, ref_indices, prefix, index + 1, end)

\* the loop over the rows: Err at the first inverted range, else the expanded rows
RECURSIVE ExpandRows(_, _, _)
ExpandRows(pr, idx, expanded_rows) ==
  IF idx >= Len(pr.rows) THEN Ok(expanded_rows)
  ELSE LET ref_value == get_ref(pr, idx)
           range == parse_reference_range(RemoveSpaces(ref_value))
           row == pr.rows[idx + 1]
       IN  IF ~IsSome(range) THEN ExpandRows(pr, idx + 1, Append(expanded_rows, row))
           ELSE IF Unwrap(range).end < Unwrap(range).start
           THEN Err([kind |-> "invalid_range", ref_value |-> ref_value])
           ELSE ExpandRows(pr, idx + 1,
                  expanded_rows \o ExpandRange(row, get_column_indices(pr, "ref"),
                                               Unwrap(range).prefix,
                                               Unwrap(range).start, Unwrap(range).end))

expand_reference(pr) ==
  LET res == ExpandRows(pr, 0, <<>>)
  IN  IF ~res.ok THEN res
      ELSE Ok([rows |-> res.value,
               column_roles |-> pr.column_roles,
               column_order |-> pr.column_order,
               errors |-> <<>>,
               headers |-> pr.headers,
               columns |-> pr.columns,
               row_numbers |-> [i \in 1..Len(res.value) |-> i],
               structured_errors |-> None])

\* the dataset handed to expand_reference holds at most MaxExpandRows rows
MaxExpandRows == 3

RangeC1C3 == <<"C", "1", "-", "C", "3">>

RangeC2C1 == <<"C", "2", "-", "C", "1">>

RangeC1C2Padded == <<" ", "C", "1", "-", "C", "2", " ">>

\* rows with a range, an inverted range, a plain key, a range next to an empty cell,
\* and a blank first cell
ExpandRowPool ==
  { <<RangeC1C3, PN1>>, <<RangeC2C1, PN2>>, <<RefC1, PN1>>,
    <<RangeC1C2Padded, PN3, <<>>>>, <<Blank, PN1, RefC2>> }

ExpandInputs ==
  { Dataset(shape, rows) :
      shape \in {ShapeRefPart, ShapeTwoRefs},
      rows \in UNION {[1..k -> ExpandRowPool] : k \in 0..MaxExpandRows} }

InitExpand ==
  /\ parse \in ExpandInputs
  /\ expanded = None
  /\ ipc_rules = <<>>
  /\ exceptions = <<>>
  /\ named = None
  /\ dataset = NoDataset
  /\ steps = 0
  /\ op = "none"
  /\ parse_a = NoDataset
  /\ parse_b = NoDataset
  /\ diffs = <<>>
  /\ merged = NoDataset
  /\ raw = <<>>
  /\ built = None
  /\ match_call = NoCall
  /\ match_result = None

\* lib.rs expand_reference
Expand ==
  /\ op = "none"
  /\ op' = "expand_reference"
  /\ expanded' = Some(expand_reference(parse))
  /\ UNCHANGED <<parse_a, parse_b, diffs, merged, raw, built>>
  /\ UNCHANGED <<match_call, match_result, parse>>
  /\ UNCHANGED <<ipc_rules, exceptions, named, dataset, steps>>

NextExpand == Expand

SpecExpand == InitExpand /\ [][NextExpand]_vars


(***************************************************************************)
(* Merges of rows of different lengths                                     *)
(***************************************************************************)
\* the base and the overlay of such a merge hold at most MaxRaggedRows rows each
MaxRaggedRows == 2

\* rows of one to four cells with the key C1 or C2: a longer row ending in a blank
\* cell, a longer row with empty cells before its last cell, a short row
RaggedRowPool ==
  { <<RefC1, PN1>>, <<RefC1, PN2, Blank>>, <<RefC1, <<>>, <<>>, PN3>>, <<RefC1>>,
    <<RefC2, PN3, PN1>> }

RaggedRowLists == UNION {[1..k -> RaggedRowPool] : k \in 0..MaxRaggedRows}

InitRagged ==
  /\ \E ra \in RaggedRowLists : \E rb \in RaggedRowLists :
       /\ parse_a = Dataset(ShapeRefPart, ra)
       /\ parse_b = Dataset(ShapeRefPart, rb)
  /\ op = "none"
  /\ diffs = <<>>
  /\ merged = NoDataset
  /\ raw = <<>>
  /\ built = None
  /\ match_call = NoCall
  /\ match_result = None
  /\ parse = NoDataset
  /\ expanded = None
  /\ ipc_rules = <<>>
  /\ exceptions = <<>>
  /\ named = None
  /\ dataset = NoDataset
  /\ steps = 0

NextRagged == Merge

SpecRagged == InitRagged /\ [][NextRagged]_vars


(***************************************************************************)
(* IPC names: matchers/helpers.rs condition_matches, get_field_value;      *)
(* matchers/ipc.rs apply_ipc_names, find_matching_ipc_name                 *)
(***************************************************************************)
\* the role of the column of the assigned names, named "assigned_name" by the
\* documentation of apply_ipc_names
ASSIGNED_NAME_KEY == "assigned_name"

\* ASSIGNED_NAME_KEY.to_string(), pushed as a header
AssignedNameHeader == <<"a", "s", "s", "i", "g", "n", "e", "d", "_", "n", "a", "m", "e">>

\* the names of the roles get_field_value knows; it also knows a Japanese name for
\* part_no, manufacturer and value, which no field of the rules below is written in
FieldsRef == {<<"r", "e", "f">>, <<"r", "e", "f", "e", "r", "e", "n", "c", "e">>}

FieldsPartNo == {<<"p", "a", "r", "t", "_", "n", "o">>, <<"p", "a", "r", "t", "n", "o">>, <<"p", "a", "r", "t", "n", "u", "m", "b", "e", "r">>}

FieldsManufacturer == {<<"m", "a", "n", "u", "f", "a", "c", "t", "u", "r", "e", "r">>}

FieldsValue == {<<"v", "a", "l", "u", "e">>}

\* get_field_value: the loop over the headers for a field that names no role
SomeIfFilled(value) == IF value = <<>> THEN None ELSE Some(value)

RECURSIVE HeaderValue(_, _, _, _)
HeaderValue(pr, row, normalized, col_idx) ==
  IF col_idx >= Len(pr.headers) THEN None
  ELSE IF /\ to_lowercase(pr.headers[col_idx + 1]) = normalized
          /\ col_idx < Len(row)
          /\ trim(row[col_idx + 1]) # <<>>
  THEN Some(row[col_idx + 1])
  ELSE HeaderValue(pr, row, normalized, col_idx + 1)

get_field_value(pr, row_idx, field) ==
  LET normalized == to_lowercase(trim(field))
  IN  IF normalized \in FieldsRef THEN SomeIfFilled(get_ref(pr, row_idx))
      ELSE IF normalized \in FieldsPartNo THEN SomeIfFilled(get_part_no(pr, row_idx))
      ELSE IF normalized \in FieldsManufacturer
      THEN SomeIfFilled(get_manufacturer(pr, row_idx))
      ELSE IF normalized \in FieldsValue THEN SomeIfFilled(get_value(pr, row_idx))
      ELSE IF row_idx >= Len(pr.rows) THEN None
      ELSE HeaderValue(pr, pr.rows[row_idx + 1], normalized, 0)

condition_matches(pr, row_idx, condition) ==
  LET target_value == get_field_value(pr, row_idx, condition.field)
  IN  IF ~IsSome(target_value) THEN FALSE
      ELSE value_matches(Unwrap(target_value), condition.value, condition.match_type)

\* rule.conditions.iter().all(..)
RuleMatches(pr, row_idx, rule) ==
  \A c \in 1..Len(rule.conditions) : condition_matches(pr, row_idx, rule.conditions[c])

\* the rules in the order of the list
RECURSIVE find_matching_ipc_name_FirstRule(_, _, _)
find_matching_ipc_name_FirstRule(pr, row_idx, rules) ==
  IF rules = <<>> THEN None
  ELSE IF RuleMatches(pr, row_idx, Head(rules)) THEN Some(Head(rules).output_name)
  ELSE find_matching_ipc_name_FirstRule(pr, row_idx, Tail(rules))

\* for rule in rules.iter().rev()
RECURSIVE find_matching_ipc_name(_, _, _)
find_matching_ipc_name(pr, row_idx, rules) ==
  IF rules = <<>> THEN None
  ELSE IF RuleMatches(pr, row_idx, rules[Len(rules)])
  THEN Some(rules[Len(rules)].output_name)
  ELSE find_matching_ipc_name(pr, row_idx, SubSeq(rules, 1, Len(rules) - 1))

\* apply_ipc_names, step 1: the map of the exceptions
RECURSIVE ExceptionMap(_, _)
ExceptionMap(entries, exception_map) ==
  IF entries = <<>> THEN exception_map
  ELSE ExceptionMap(Tail(entries),
         IF trim(Head(entries).part_no) = <<>> THEN exception_map
         ELSE MapInsert(exception_map, to_lowercase(Head(entries).part_no),
                        Head(entries).output_name))

\* apply_ipc_names, step 2: [assigned_col_idx, headers, column_roles]
AssignedColumn(pr) ==
  IF ASSIGNED_NAME_KEY \in DOMAIN pr.column_roles
  THEN [assigned_col_idx |->
          IF /\ pr.column_roles[ASSIGNED_NAME_KEY] # <<>>
             /\ IsSome(parse_col_id(pr.column_roles[ASSIGNED_NAME_KEY][1]))
          THEN Unwrap(parse_col_id(pr.column_roles[ASSIGNED_NAME_KEY][1]))
          ELSE Len(pr.headers),
        headers |-> pr.headers,
        column_roles |-> pr.column_roles]
  ELSE [assigned_col_idx |-> Len(pr.headers),
        headers |-> Append(pr.headers, AssignedNameHeader),
        column_roles |-> MapInsert(pr.column_roles, ASSIGNED_NAME_KEY,
                                   <<col_id(Len(pr.headers))>>)]

\* while new_row.len() <= assigned_col_idx { new_row.push(String::new()) }
RECURSIVE PadRow(_, _)
PadRow(new_row, assigned_col_idx) ==
  IF Len(new_row) <= assigned_col_idx THEN PadRow(Append(new_row, <<>>), assigned_col_idx)
  ELSE new_row

\* apply_ipc_names, step 3: the name written into the padded row
WriteName(pr, row_idx, ipc_rule_list, exception_map, new_row, assigned_col_idx, part_no) ==
  IF part_no = <<>> THEN new_row
  ELSE IF to_lowercase(part_no) \in DOMAIN exception_map
  THEN [new_row EXCEPT ![assigned_col_idx + 1] = exception_map[to_lowercase(part_no)]]
  ELSE IF IsSome(find_matching_ipc_name(pr, row_idx, ipc_rule_list))
  THEN [new_row EXCEPT ![assigned_col_idx + 1] =
          Unwrap(find_matching_ipc_name(pr, row_idx, ipc_rule_list))]
  ELSE new_row

\* apply_ipc_names, step 3: the loop over the rows
RECURSIVE NameRows(_, _, _, _, _, _)
NameRows(pr, row_idx, ipc_rule_list, exception_map, assigned_col_idx, new_rows) ==
  IF row_idx >= Len(pr.rows) THEN new_rows
  ELSE NameRows(pr, row_idx + 1, ipc_rule_list, exception_map, assigned_col_idx,
         Append(new_rows,
                WriteName(pr, row_idx, ipc_rule_list, exception_map,
                          PadRow(pr.rows[row_idx + 1], assigned_col_idx),
                          assigned_col_idx, get_part_no(pr, row_idx))))

\* apply_ipc_names, step 4: the result around the new rows
NamedResult(pr, assigned, new_rows) ==
  Ok([rows |-> new_rows,
      column_roles |-> assigned.column_roles,
      column_order |-> pr.column_order,
      errors |-> pr.errors,
      headers |-> assigned.headers,
      columns |-> pr.columns,
      row_numbers |-> pr.row_numbers,
      structured_errors |-> pr.structured_errors])

apply_ipc_names(pr, ipc_rule_list, exception_list) ==
  NamedResult(pr, AssignedColumn(pr),
              NameRows(pr, 0, ipc_rule_list, ExceptionMap(exception_list, EmptyMap),
                       AssignedColumn(pr).assigned_col_idx, <<>>))

(***************************************************************************)
(* IPC names: datasets, rules and exceptions                               *)
(***************************************************************************)
MaxIpcRows == 2

MaxIpcRules == 2

NameOld == <<"O", "l", "d">>

NameCap == <<"C", "A", "P">>

NameRes == <<"R", "E", "S">>

NameAny == <<"A", "N", "Y">>

NameInd == <<"I", "N", "D">>

\* the last row carries a name of an earlier call
IpcRowPool ==
  { <<RefC1, PN1>>, <<RefC2, <<"p", "n", "2">>>>, <<RefC1>>, <<RefC2, PN3, NameOld>> }

\* the shape of a result of apply_ipc_names on a dataset of the columns Ref and Part
ShapeNamed ==
  [headers |-> Append(ShapeRefPart.headers, AssignedNameHeader),
   columns |-> ShapeRefPart.columns,
   column_roles |-> MapInsert(ShapeRefPart.column_roles, ASSIGNED_NAME_KEY,
                              <<col_id(2)>>),
   column_order |-> ShapeRefPart.column_order,
   errors |-> <<>>,
   structured_errors |-> Some(<<>>)]

IpcInputs ==
  { Dataset(shape, rows) :
      shape \in {ShapeRefPart, ShapeNamed},
      rows \in UNION {[1..k -> IpcRowPool] : k \in 0..MaxIpcRows} }

Condition(field, match_type, value) ==
  [field |-> field, match_type |-> match_type, value |-> value]

\* a rule on the part number, a rule on the reference, a rule without conditions and
\* a rule of two conditions, one of them on a column named by its header
RulePool ==
  { [rule_name |-> <<"1">>, output_name |-> NameCap,
     conditions |-> <<Condition(<<"p", "a", "r", "t", "_", "n", "o">>, TypeStartsWith, <<"P", "N">>)>>],
    [rule_name |-> <<"2">>, output_name |-> NameRes,
     conditions |-> <<Condition(<<" ", "R", "e", "f">>, TypeEquals, <<"c", "1">>)>>],
    [rule_name |-> <<"3">>, output_name |-> NameAny, conditions |-> <<>>],
    [rule_name |-> <<"4">>, output_name |-> NameInd,
     conditions |-> <<Condition(<<"P", "a", "r", "t">>, TypeContains, <<"3">>),
                      Condition(<<"r", "e", "f">>, TypeStartsWith, <<"C", "2">>)>>] }

RuleLists == UNION {[1..k -> RulePool] : k \in 0..MaxIpcRules}

\* an exception without a part number and exceptions for PN1 in both cases; an
\* exception for PN3
ExceptionLists ==
  { <<>>,
    <<[part_no |-> Blank, output_name |-> <<"X", "3">>],
      [part_no |-> <<"p", "n", "1">>, output_name |-> <<"X", "1">>],
      [part_no |-> PN1, output_name |-> <<"X", "2">>]>>,
    <<[part_no |-> PN3, output_name |-> <<"X", "4">>]>> }

InitIpc ==
  /\ parse \in IpcInputs
  /\ ipc_rules \in RuleLists
  /\ exceptions \in ExceptionLists
  /\ named = None
  /\ dataset = NoDataset
  /\ steps = 0
  /\ op = "none"
  /\ parse_a = NoDataset
  /\ parse_b = NoDataset
  /\ diffs = <<>>
  /\ merged = NoDataset
  /\ raw = <<>>
  /\ built = None
  /\ match_call = NoCall
  /\ match_result = None
  /\ expanded = None

\* lib.rs apply_ipc_names
ApplyIpc ==
  /\ op = "none"
  /\ op' = "apply_ipc_names"
  /\ named' = Some(apply_ipc_names(parse, ipc_rules, exceptions))
  /\ UNCHANGED <<parse_a, parse_b, diffs, merged, raw, built>>
  /\ UNCHANGED <<match_call, match_result, parse, expanded>>
  /\ UNCHANGED <<ipc_rules, exceptions, dataset, steps>>

NextIpc == ApplyIpc

SpecIpc == InitIpc /\ [][NextIpc]_vars


(***************************************************************************)
(* Row transforms: processors/reference.rs split_reference_rows,           *)
(* processors/cleaner.rs fill_blank_cells, cleanse_text_data               *)
(***************************************************************************)
\* ref_value.split(',').map(|part| part.trim()).filter(|part| !part.is_empty())
References(ref_value) ==
  SelectSeq(TrimAll(split(ref_value, {","}, <<>>)), LAMBDA part : part # <<>>)

\* for reference in references: one row per reference
RECURSIVE SplitRow(_, _, _)
SplitRow(row, ref_indices, references) ==
  IF references = <<>> THEN <<>>
  ELSE <<SetRefCells(row, ref_indices, Head(references))>>
         \o SplitRow(row, ref_indices, Tail(references))

\* split_reference_rows: the loop over the rows
RECURSIVE SplitRows(_, _, _)
SplitRows(pr, idx, result_rows) ==
  IF idx >= Len(pr.rows) THEN result_rows
  ELSE SplitRows(pr, idx + 1,
         IF Len(References(get_ref(pr, idx))) <= 1
         THEN Append(result_rows, pr.rows[idx + 1])
         ELSE result_rows \o SplitRow(pr.rows[idx + 1], get_column_indices(pr, "ref"),
                                      References(get_ref(pr, idx))))

\* the result of a transform that renumbers the rows
Renumbered(pr, new_rows) ==
  Ok([rows |-> new_rows,
      column_roles |-> pr.column_roles,
      column_order |-> pr.column_order,
      errors |-> <<>>,
      headers |-> pr.headers,
      columns |-> pr.columns,
      row_numbers |-> [i \in 1..Len(new_rows) |-> i],
      structured_errors |-> None])

split_reference_rows(pr) == Renumbered(pr, SplitRows(pr, 0, <<>>))

\* fill_blank_cells: a blank cell takes the cell of the row before, where it has one
FillRow(row, prev) ==
  [c \in 1..Len(row) |->
     IF trim(row[c]) = <<>> /\ c <= Len(prev) THEN prev[c] ELSE row[c]]

\* fill_blank_cells: the loop over the rows; prev_row is None before the first row
RECURSIVE FillRows(_, _, _)
FillRows(rows, prev_row, filled_rows) ==
  IF rows = <<>> THEN filled_rows
  ELSE LET new_row == IF IsSome(prev_row) THEN FillRow(Head(rows), Unwrap(prev_row))
                      ELSE Head(rows)
       IN  FillRows(Tail(rows), Some(new_row), Append(filled_rows, new_row))

\* the result of a transform that keeps the row numbers
Rewritten(pr, new_rows) ==
  [rows |-> new_rows,
   column_roles |-> pr.column_roles,
   column_order |-> pr.column_order,
   errors |-> <<>>,
   headers |-> pr.headers,
   columns |-> pr.columns,
   row_numbers |-> pr.row_numbers,
   structured_errors |-> None]

fill_blank_cells(pr) == Ok(Rewritten(pr, FillRows(pr.rows, None, <<>>)))

\* utils/text.rs cleanse_string: the parentheses are removed; the full-width
\* characters it also converts are not among the characters of the cells below
cleanse_string(input) == SelectSeq(input, LAMBDA c : c \notin {"(", ")"})

cleanse_text_data(pr) ==
  Rewritten(pr, [i \in 1..Len(pr.rows) |->
                   [c \in 1..Len(pr.rows[i]) |-> cleanse_string(pr.rows[i][c])]])

(***************************************************************************)
(* Sequences of transforms of a classified dataset                         *)
(***************************************************************************)
MaxPipelineRows == 2

MaxPipelineSteps == 2

\* a row with a range, a row with a list, a row with parentheses and a blank cell, a
\* blank row
PipelineRowPool ==
  { << <<"C", "1", "-", "C", "2">>, <<"0", "6", "B">> >>,
    << <<"C", "1", ",", "C", "2">>, <<"0", "6", "B">>, <<"M", "u", "r", "a", "t", "a">> >>,
    << <<"C", "3">>, Blank, <<"(", "x", ")">> >>,
    << <<>>, Blank >> }

PipelineInputs == UNION {[1..k -> PipelineRowPool] : k \in 1..MaxPipelineRows}

PipelineRuleLists == {rules \in RuleLists : Len(rules) <= 1}

InitPipeline ==
  /\ raw \in PipelineInputs
  /\ dataset = NoDataset
  /\ steps = 0
  /\ op = "none"
  /\ parse_a = NoDataset
  /\ parse_b = NoDataset
  /\ diffs = <<>>
  /\ merged = NoDataset
  /\ built = None
  /\ match_call = NoCall
  /\ match_result = None
  /\ parse = NoDataset
  /\ expanded = None
  /\ ipc_rules = <<>>
  /\ exceptions = <<>>
  /\ named = None

\* the variables no step of the pipeline changes
PipelineFrame ==
  /\ UNCHANGED <<raw, parse_a, parse_b, diffs, merged, built>>
  /\ UNCHANGED <<match_call, match_result, parse, expanded>>
  /\ UNCHANGED <<ipc_rules, exceptions, named>>

\* lib.rs parse_bom_file: the classified dataset the transforms start from
PipelineBuild ==
  /\ op = "none"
  /\ build_bom_rows(raw).ok
  /\ op' = "pipeline"
  /\ dataset' = build_bom_rows(raw).value
  /\ steps' = steps
  /\ PipelineFrame

\* one more transform; new_dataset is its result
PipelineStep(new_dataset) ==
  /\ op = "pipeline"
  /\ steps < MaxPipelineSteps
  /\ steps' = steps + 1
  /\ dataset' = new_dataset
  /\ op' = op
  /\ PipelineFrame

\* lib.rs update_and_append_boms with another classified dataset as overlay
PipelineMerge ==
  \E overlay \in PipelineInputs :
    /\ build_bom_rows(overlay).ok
    /\ PipelineStep(update_and_append_boms(dataset, build_bom_rows(overlay).value))

\* lib.rs expand_reference; an error leaves no dataset to go on with
PipelineExpand ==
  /\ op = "pipeline"
  /\ expand_reference(dataset).ok
  /\ PipelineStep(expand_reference(dataset).value)

PipelineSplit ==
  /\ op = "pipeline"
  /\ PipelineStep(split_reference_rows(dataset).value)

PipelineFill ==
  /\ op = "pipeline"
  /\ PipelineStep(fill_blank_cells(dataset).value)

PipelineCleanse ==
  /\ op = "pipeline"
  /\ PipelineStep(cleanse_text_data(dataset))

PipelineIpc ==
  /\ op = "pipeline"
  /\ \E rules \in PipelineRuleLists, entries \in ExceptionLists :
       PipelineStep(apply_ipc_names(dataset, rules, entries).value)

NextPipeline ==
  \/ PipelineBuild
  \/ PipelineMerge
  \/ PipelineExpand
  \/ PipelineSplit
  \/ PipelineFill
  \/ PipelineCleanse
  \/ PipelineIpc

SpecPipeline == InitPipeline /\ [][NextPipeline]_vars

(***************************************************************************)
(* Properties of the diff engine                                           *)
(***************************************************************************)
Compared == op = "compare_boms"

Merged == op = "update_and_append_boms"

AllUnchanged(ds) ==
  \A i \in 1..Len(ds) : ds[i].status = "unchanged" /\ ds[i].changed_columns = <<>>

HasRaggedRows(pr) ==
  \E i, j \in 1..Len(pr.rows) : Len(pr.rows[i]) # Len(pr.rows[j])

\* C1 as stated: comparing any dataset with itself (duplicate join keys and ragged
\* rows included) yields only records that are unchanged and have no changed column.
C1_SelfCompareAllUnchanged == (Compared /\ parse_a = parse_b) => AllUnchanged(diffs)

\* no two rows of the dataset have the same non-empty join key
UniqueKeys(pr) ==
  \A i, j \in 0..(Len(pr.rows) - 1) :
    (i # j /\ get_ref(pr, i) # <<>>) => get_ref(pr, i) # get_ref(pr, j)

\* C1 amended: comparing a dataset in which no two rows share a join key with itself
\* (ragged rows included) yields only records that are unchanged and have no changed
\* column.
C1_SelfCompareUniqueKeys ==
  (Compared /\ parse_a = parse_b /\ UniqueKeys(parse_a)) => AllUnchanged(diffs)

\* a dataset with ragged rows and padded cells compared with itself, two records or more
C1_Witness ==
  /\ Compared
  /\ parse_a = parse_b
  /\ Len(diffs) >= 2
  /\ HasRaggedRows(parse_a)
  /\ \E i \in 1..Len(parse_a.rows) : parse_a.rows[i] = <<RefC1Padded>>
  /\ UniqueKeys(parse_a)

KeysWithStatus(ds, status) ==
  {ds[i].ref_value : i \in {j \in 1..Len(ds) : ds[j].status = status}}

\* C2: the keys added in compare(A, B) are the keys removed in compare(B, A), and the
\* keys removed in compare(A, B) are the keys added in compare(B, A).
C2_KeySymmetry ==
  Compared =>
    LET reverse == compare_boms(parse_b, parse_a)
    IN  /\ KeysWithStatus(diffs, "added") = KeysWithStatus(reverse, "removed")
        /\ KeysWithStatus(diffs, "removed") = KeysWithStatus(reverse, "added")

\* a comparison with an added key, a removed key and a row of B without a key
C2_Witness ==
  /\ Compared
  /\ KeysWithStatus(diffs, "added") # {}
  /\ KeysWithStatus(diffs, "removed") # {}
  /\ \E i \in 1..Len(parse_b.rows) : get_ref(parse_b, i - 1) = <<>>

\* C10: the records with an a_index come first, one per row of A that has a join key,
\* in A's row order; the added records follow, in B's row order.
C10_OutputOrder ==
  Compared =>
    LET emitted == SelectSeq([i \in 1..Len(parse_a.rows) |-> i - 1],
                             LAMBDA idx : get_ref(parse_a, idx) # <<>>)
        k == Len(emitted)
    IN  /\ Len(diffs) >= k
        /\ \A i \in 1..k : diffs[i].a_index = Some(emitted[i])
        /\ \A i \in (k + 1)..Len(diffs) :
             /\ diffs[i].status = "added"
             /\ diffs[i].a_index = None
             /\ IsSome(diffs[i].b_index)
        /\ \A i, j \in (k + 1)..Len(diffs) :
             i < j => Unwrap(diffs[i].b_index) < Unwrap(diffs[j].b_index)

\* two rows of A emitted, after a row of A without a key, and two rows of B added
C10_Witness ==
  /\ Compared
  /\ Len(diffs) = 4
  /\ IsSome(diffs[2].a_index)
  /\ diffs[3].status = "added"
  /\ diffs[4].status = "added"

(***************************************************************************)
(* Properties of the merge engine                                          *)
(***************************************************************************)
\* the overlay row each base row was merged with (None: the base row was copied)
Pairs == MergeState(parse_a, parse_b).pairs

IsBlank(cell) == trim(cell) = <<>>

\* C3: merging with an overlay without rows returns the base's rows, role map and
\* column order.
C3_MergeIdentity ==
  (Merged /\ parse_b.rows = <<>>) =>
    /\ merged.rows = parse_a.rows
    /\ merged.column_roles = parse_a.column_roles
    /\ merged.column_order = parse_a.column_order

\* a base with ragged rows and a row without a key, merged with an empty overlay of
\* another shape
C3_Witness ==
  /\ Merged
  /\ parse_b.rows = <<>>
  /\ parse_b.column_roles # parse_a.column_roles
  /\ HasRaggedRows(parse_a)
  /\ \E i \in 1..Len(parse_a.rows) : get_ref(parse_a, i - 1) = <<>>

\* C4: where the matched overlay row's cell is blank after trimming, the merged row
\* keeps the base row's cell (for every column inside the base row).
C4_NonEmptyWins ==
  Merged =>
    LET pairs == Pairs
    IN  \A i \in 1..Len(parse_a.rows) :
          IsSome(pairs[i]) =>
            LET row_a == parse_a.rows[i]
                row_b == parse_b.rows[Unwrap(pairs[i]) + 1]
            IN  \A c \in 1..Len(row_a) :
                  (c <= Len(row_b) /\ IsBlank(row_b[c])) =>
                    (c <= Len(merged.rows[i]) /\ merged.rows[i][c] = row_a[c])

\* a base row merged with an overlay row whose first cell is a blank
C4_Witness ==
  /\ Merged
  /\ \E i \in 1..Len(parse_a.rows) :
       /\ IsSome(Pairs[i])
       /\ parse_a.rows[i] = <<RefC2, PN3>>
       /\ parse_b.rows[Unwrap(Pairs[i]) + 1] = <<Blank, PN1, RefC2>>
       /\ merged.rows[i] = <<RefC2, PN1, RefC2>>

\* C5: when the matched overlay row has no blank cell, the merged row carries the
\* overlay row's cell at every index the overlay row covers.
C5_FullOverwrite ==
  Merged =>
    LET pairs == Pairs
    IN  \A i \in 1..Len(parse_a.rows) :
          IsSome(pairs[i]) =>
            LET row_b == parse_b.rows[Unwrap(pairs[i]) + 1]
            IN  (\A c \in 1..Len(row_b) : ~IsBlank(row_b[c])) =>
                  /\ Len(merged.rows[i]) >= Len(row_b)
                  /\ \A c \in 1..Len(row_b) : merged.rows[i][c] = row_b[c]

\* a base row merged with a longer overlay row that has no blank cell
C5_Witness ==
  /\ Merged
  /\ \E i \in 1..Len(parse_a.rows) :
       /\ IsSome(Pairs[i])
       /\ LET row_b == parse_b.rows[Unwrap(Pairs[i]) + 1]
          IN  /\ Len(row_b) > Len(parse_a.rows[i])
              /\ \A c \in 1..Len(row_b) : ~IsBlank(row_b[c])

\* C9: the merge returns the base's headers, columns, role map and column order,
\* whatever the overlay's, and changes neither input.
C9_MergeKeepsBaseStructure ==
  [][Merge =>
       /\ merged'.headers = parse_a.headers
       /\ merged'.columns = parse_a.columns
       /\ merged'.column_roles = parse_a.column_roles
       /\ merged'.column_order = parse_a.column_order
       /\ parse_a' = parse_a
       /\ parse_b' = parse_b]_vars

\* a merge whose overlay has other headers, another role map and more columns
C9_Witness ==
  /\ Merged
  /\ parse_b.headers # parse_a.headers
  /\ parse_b.column_roles # parse_a.column_roles
  /\ Len(parse_b.columns) > Len(parse_a.columns)
  /\ \E i \in 1..Len(parse_a.rows) : IsSome(Pairs[i])
  /\ Len(merged.rows) > Len(parse_a.rows)

(***************************************************************************)
(* Scenario 1                                                              *)
(***************************************************************************)
Scenario1A == Dataset(ShapeRefPart, << <<RefC1, PN1>> >>)

Scenario1B == Dataset(ShapeRefPart, << <<RefC1, PN2>>, <<RefC2, PN3>> >>)

\* C6: with ref = col-0 and part_no = col-1, A = [["C1","PN1"]] and
\* B = [["C1","PN2"],["C2","PN3"]]: the comparison is [modified "C1" with changed
\* columns [col-1], added "C2"] and the merge has the rows
\* [["C1","PN2"],["C2","PN3"]].
C6_Scenario1 ==
  (parse_a = Scenario1A /\ parse_b = Scenario1B) =>
    /\ Compared =>
         /\ Len(diffs) = 2
         /\ diffs[1].status = "modified"
         /\ diffs[1].ref_value = <<"C", "1">>
         /\ diffs[1].changed_columns = << <<"c", "o", "l", "-", "1">> >>
         /\ diffs[2].status = "added"
         /\ diffs[2].ref_value = <<"C", "2">>
    /\ Merged =>
         merged.rows = << << <<"C", "1">>, <<"P", "N", "2">> >>,
                          << <<"C", "2">>, <<"P", "N", "3">> >> >>

\* the comparison of scenario 1 has run
C6_Witness == Compared /\ parse_a = Scenario1A /\ parse_b = Scenario1B /\ Len(diffs) = 2

(***************************************************************************)
(* Properties of the classifier                                            *)
(***************************************************************************)
Built == op = "build_bom_rows"

HasWarning(pr, message, row) ==
  \E i \in 1..Len(Unwrap(pr.structured_errors)) :
    LET e == Unwrap(pr.structured_errors)[i]
    IN  e.message = message /\ e.row = row /\ e.severity = "warning"

Scenario3Raw == << HeaderRefPartVal, << <<"C", "1">>, <<>>, <<"5", "V">> >> >>

\* C7: classifying [["Ref","Part","Val"],["C1","","5V"]] resolves ref = [col-0],
\* part_no = [col-1] and value = [col-2] and records a warning for the empty part
\* number of the data row (line 2).
C7_Scenario3 ==
  (Built /\ raw = Scenario3Raw) =>
    /\ Unwrap(built).ok
    /\ LET pr == Unwrap(built).value
       IN  /\ {"ref", "part_no", "value"} \subseteq DOMAIN pr.column_roles
           /\ pr.column_roles["ref"] = << <<"c", "o", "l", "-", "0">> >>
           /\ pr.column_roles["part_no"] = << <<"c", "o", "l", "-", "1">> >>
           /\ pr.column_roles["value"] = << <<"c", "o", "l", "-", "2">> >>
           /\ HasWarning(pr, [kind |-> "part_no_empty", line |-> 2], Some(2))

(***************************************************************************)
(* Further properties of the diff engine                                   *)
(***************************************************************************)
\* the row has no join key: no ref role, or every cell of a ref column that lies
\* inside the row is blank
KeyIsEmpty(pr, idx) ==
  \/ "ref" \notin DOMAIN pr.column_roles
  \/ LET row == pr.rows[idx + 1]
         ids == pr.column_roles["ref"]
     IN  \A n \in 0..(Len(row) - 1) : Contains(ids, col_id(n)) => IsBlank(row[n + 1])

\* C11: no record of the comparison has an empty key, and no record points at a row of
\* A or of B whose join key is empty.
C11_EmptyKeysExcluded ==
  Compared =>
    \A i \in 1..Len(diffs) :
      /\ diffs[i].ref_value # <<>>
      /\ IsSome(diffs[i].a_index) => ~KeyIsEmpty(parse_a, Unwrap(diffs[i].a_index))
      /\ IsSome(diffs[i].b_index) => ~KeyIsEmpty(parse_b, Unwrap(diffs[i].b_index))

\* A has no ref role, B has a row whose ref column lies past its end and a row with a
\* key, which is reported
C11_Witness ==
  /\ Compared
  /\ "ref" \notin DOMAIN parse_a.column_roles
  /\ parse_a.rows # <<>>
  /\ \E i \in 1..Len(parse_b.rows) :
       /\ Len(parse_b.rows[i]) < 3
       /\ parse_b.column_roles["ref"] = <<col_id(2)>>
  /\ diffs # <<>>

\* some row of the dataset has the join key
KeyOccurs(pr, key) == \E i \in 0..(Len(pr.rows) - 1) : get_ref(pr, i) = key

\* C12: every record has one of the four statuses; it is removed exactly when it has
\* no b_index, which is when no row of B has its key; it is added exactly when it has
\* no a_index, which is when no row of A has its key; a record with both indices is
\* unchanged exactly when changed_columns is empty and modified otherwise; only
\* modified records have changed columns.
C12_StatusRelations ==
  Compared =>
    \A i \in 1..Len(diffs) :
      LET d == diffs[i]
      IN  /\ d.status \in {"added", "removed", "modified", "unchanged"}
          /\ (d.status = "removed") <=> (d.b_index = None)
          /\ (d.b_index = None) <=> ~KeyOccurs(parse_b, d.ref_value)
          /\ (d.status = "added") <=> (d.a_index = None)
          /\ (d.a_index = None) <=> ~KeyOccurs(parse_a, d.ref_value)
          /\ (IsSome(d.a_index) /\ IsSome(d.b_index)) =>
                /\ (d.status = "unchanged") <=> (d.changed_columns = <<>>)
                /\ (d.status = "modified") <=> (d.changed_columns # <<>>)
          /\ (d.changed_columns # <<>>) => (d.status = "modified")

\* a comparison reporting a modified pair and a removed row
C12_Witness ==
  /\ Compared
  /\ \E i, j \in 1..Len(diffs) :
       /\ diffs[i].status = "modified"
       /\ diffs[j].status = "removed"

NoDuplicates(seq) == \A j, k \in 1..Len(seq) : j # k => seq[j] # seq[k]

\* C13: in every record of the comparison no column id occurs twice in
\* changed_columns, also when the matched rows differ in length and a role column
\* lies beyond the end of the shorter row.
C13_ChangedColumnsNoDuplicates ==
  Compared => \A i \in 1..Len(diffs) : NoDuplicates(diffs[i].changed_columns)

\* the indices of the rows that have the join key
RowsWithKey(pr, key) == {j \in 0..(Len(pr.rows) - 1) : get_ref(pr, j) = key}

\* C18: the counterpart of a row of A is the first row of B, in row order, that has
\* its join key: the record's b_index is the smallest index of such a row.
C18_FirstRowOfBWins ==
  Compared =>
    \A i \in 1..Len(diffs) :
      (IsSome(diffs[i].a_index) /\ IsSome(diffs[i].b_index)) =>
        \A j \in RowsWithKey(parse_b, diffs[i].ref_value) :
          Unwrap(diffs[i].b_index) <= j

(***************************************************************************)
(* Further properties of the merge engine                                  *)
(***************************************************************************)
\* the join keys of the rows, in row order
RECURSIVE KeysFrom(_, _)
KeysFrom(pr, idx) ==
  IF idx >= Len(pr.rows) THEN <<>>
  ELSE <<get_ref(pr, idx)>> \o KeysFrom(pr, idx + 1)

\* the k-th smallest index of the set
Kth(indices, k) == CHOOSE x \in indices : Cardinality({y \in indices : y <= x}) = k

\* the overlay row C19 pairs with the base row: the k-th overlay row with the key of
\* the k-th base row with that key, when the key is not empty and that row exists
PartnerOf(keys_a, keys_b, idx) ==
  LET key == keys_a[idx + 1]
      k == Cardinality({j \in 0..idx : keys_a[j + 1] = key})
      overlay == {j \in 0..(Len(keys_b) - 1) : keys_b[j + 1] = key}
  IN  IF key # <<>> /\ k <= Cardinality(overlay) THEN Some(Kth(overlay, k)) ELSE None

RECURSIVE PartnersFrom(_, _, _)
PartnersFrom(keys_a, keys_b, idx) ==
  IF idx >= Len(keys_a) THEN <<>>
  ELSE <<PartnerOf(keys_a, keys_b, idx)>> \o PartnersFrom(keys_a, keys_b, idx + 1)

\* per base row, the overlay row C19 pairs with it (None: no such row)
Partners == PartnersFrom(KeysFrom(parse_a, 0), KeysFrom(parse_b, 0), 0)

\* C19: the k-th base row with a non-empty key is merged with the k-th overlay row
\* with that key when there is one and copied unchanged otherwise; a base row with an
\* empty key is copied unchanged; no overlay row is merged into two base rows.
C19_FifoPairing ==
  Merged =>
    LET pairs == Pairs
        partners == Partners
    IN  /\ pairs = partners
        /\ \A i \in 1..Len(parse_a.rows) :
             merged.rows[i] =
               IF IsSome(partners[i])
               THEN MergeCells(parse_a.rows[i], parse_b.rows[Unwrap(partners[i]) + 1], 0)
               ELSE parse_a.rows[i]
        /\ \A i \in 1..Len(parse_a.rows) :
             get_ref(parse_a, i - 1) = <<>> => merged.rows[i] = parse_a.rows[i]
        /\ \A i, j \in 1..Len(pairs) :
             (i # j /\ IsSome(pairs[i])) => pairs[i] # pairs[j]

\* two base rows with one key merged with two different overlay rows with that key,
\* the first with the first and the second with the second
C19_Witness ==
  /\ Merged
  /\ Len(parse_a.rows) = 2
  /\ get_ref(parse_a, 0) = get_ref(parse_a, 1)
  /\ Pairs = <<Some(0), Some(1)>>
  /\ parse_b.rows[1] # parse_b.rows[2]
  /\ merged.rows[1] # merged.rows[2]

\* C20: the merge returns one row per base row, in base order, then every overlay
\* row that was not merged into a base row, verbatim and in overlay order; it has
\* len(base) + len(overlay) - (number of merged pairs) rows.
C20_MergeRowLayout ==
  Merged =>
    LET n == Len(parse_a.rows)
        partners == Partners
        merged_base == {i \in 1..n : IsSome(partners[i])}
        merged_overlay == {Unwrap(partners[i]) : i \in merged_base}
        rest == SelectSeq([j \in 1..Len(parse_b.rows) |-> j - 1],
                          LAMBDA j : j \notin merged_overlay)
    IN  /\ Len(merged.rows) = n + Len(parse_b.rows) - Cardinality(merged_base)
        /\ Len(merged.rows) = n + Len(rest)
        /\ \A i \in 1..n :
             merged.rows[i] =
               IF IsSome(partners[i])
               THEN MergeCells(parse_a.rows[i], parse_b.rows[Unwrap(partners[i]) + 1], 0)
               ELSE parse_a.rows[i]
        /\ \A k \in 1..Len(rest) : merged.rows[n + k] = parse_b.rows[rest[k] + 1]

\* one base row merged with the first of two overlay rows with its key; the second
\* and an overlay row without a key are appended
C20_Witness ==
  /\ Merged
  /\ Len(parse_a.rows) = 1
  /\ Len(parse_b.rows) = 3
  /\ Partners = <<Some(0)>>
  /\ Len(merged.rows) = 3
  /\ \E j \in 1..3 : get_ref(parse_b, j - 1) = <<>>
  /\ Cardinality(RowsWithKey(parse_b, get_ref(parse_a, 0))) = 2

\* C22: the merged dataset has the row numbers 1, 2, ..., n for its n rows, an empty
\* errors list and no structured errors, whatever the inputs carried.
C22_MergeResetsDiagnostics ==
  Merged =>
    /\ merged.row_numbers = [i \in 1..Len(merged.rows) |-> i]
    /\ merged.errors = <<>>
    /\ merged.structured_errors = None

\* a merge of a base that carries a diagnostic and row numbers starting at 2 with an
\* overlay that carries structured errors, giving three rows or more
C22_Witness ==
  /\ Merged
  /\ parse_a.errors # <<>>
  /\ parse_a.rows # <<>>
  /\ parse_a.row_numbers[1] = 2
  /\ IsSome(parse_b.structured_errors)
  /\ Len(merged.rows) >= 3

\* C29: when base and overlay have the same role map, every row of the result at the
\* position of a base row has the join key of that base row.
C29_MergeKeepsKeys ==
  (Merged /\ parse_a.column_roles = parse_b.column_roles) =>
    \A i \in 1..Len(parse_a.rows) :
      get_ref([parse_a EXCEPT !.rows = merged.rows], i - 1) = get_ref(parse_a, i - 1)

(***************************************************************************)
(* Properties of the accessors                                             *)
(***************************************************************************)
Roles == {"ref", "part_no", "manufacturer", "value"}

\* the column id names a column inside the row, whose cell is not blank
HasValue(row, id) ==
  \E n \in 0..(Len(row) - 1) : col_id(n) = id /\ ~IsBlank(row[n + 1])

\* the trimmed cell of the column the id names
ValueOf(row, id) ==
  trim(row[(CHOOSE n \in 0..(Len(row) - 1) : col_id(n) = id) + 1])

\* the values C14 describes: nothing for a row index past the end or a role that is
\* not in the role map; otherwise, in the order of the role's id list, the trimmed
\* cell of every column that lies inside the row and is not blank
ValuesInRoleOrder(pr, row_index, role) ==
  IF row_index >= Len(pr.rows) \/ role \notin DOMAIN pr.column_roles THEN <<>>
  ELSE LET row == pr.rows[row_index + 1]
           ids == pr.column_roles[role]
           kept == SelectSeq(ids, LAMBDA id : HasValue(row, id))
       IN  [k \in 1..Len(kept) |-> ValueOf(row, kept[k])]

\* C14: for every row index (one past the end included) and every role (roles absent
\* from the role map included) of the datasets handed to a comparison, get_values
\* returns the values in the order of the role's column-id list, trimmed, without the
\* blank cells and without the columns past the end of the row.
C14_GetValues ==
  Compared =>
    \A pr \in {parse_a, parse_b} :
      \A row_index \in 0..Len(pr.rows) :
        \A role \in Roles :
          get_values(pr, row_index, role) = ValuesInRoleOrder(pr, row_index, role)

\* a dataset whose part_no role lists the second column before the first, with a row
\* giving two values in that order, a row with a padded cell and a role column past
\* the end of a row
C14_Witness ==
  /\ Compared
  /\ parse_b.column_roles["part_no"] = <<col_id(1), col_id(0)>>
  /\ \E i \in 0..(Len(parse_b.rows) - 1) :
       get_values(parse_b, i, "part_no") = <<PN1, RefC1>>
  /\ \E i \in 0..(Len(parse_b.rows) - 1) :
       /\ parse_b.rows[i + 1] = <<RefC1Padded>>
       /\ get_values(parse_b, i, "part_no") = <<RefC1>>
       /\ get_values(parse_b, i, "ref") = <<>>

(***************************************************************************)
(* Further properties of the classifier                                    *)
(***************************************************************************)
AllBlank(row) == \A c \in 1..Len(row) : IsBlank(row[c])

HasDiagnostics(pr) == Unwrap(pr.structured_errors) # <<>>

\* C15: build_bom_rows fails exactly when the raw input has no row or only blank
\* rows; every other input yields a dataset, whatever its diagnostics.
C15_HardErrorOnlyWithoutRows ==
  Built =>
    (~Unwrap(built).ok <=> (\A i \in 1..Len(raw) : AllBlank(raw[i])))

\* an input of blank rows only, which fails
C15_Witness ==
  /\ Built
  /\ Len(raw) >= 2
  /\ \A i \in 1..Len(raw) : AllBlank(raw[i])
  /\ ~Unwrap(built).ok

\* an input of a blank row and a header without any data row, which yields a dataset
\* with diagnostics
C15_WitnessDataset ==
  /\ Built
  /\ raw = << << <<>>, Blank >>, HeaderRefPartVal >>
  /\ Unwrap(built).ok
  /\ HasDiagnostics(Unwrap(built).value)

(***************************************************************************)
(* Properties of the rule engine's field predicate                         *)
(***************************************************************************)
Matched == op = "value_matches"

\* the text matches the pattern as a glob: * stands for any run of characters, empty
\* runs included, and every other character for itself
RECURSIVE GlobMatches(_, _)
GlobMatches(text, glob) ==
  IF glob = <<>> THEN text = <<>>
  ELSE IF Head(glob) = "*"
  THEN \E k \in 0..Len(text) : GlobMatches(SubSeq(text, k + 1, Len(text)), Tail(glob))
  ELSE text # <<>> /\ Head(text) = Head(glob) /\ GlobMatches(Tail(text), Tail(glob))

KnownTypes == {TypeEquals, TypeContains, TypeStartsWith, TypeEndsWith, TypeWildcard}

\* C16: with match type wildcard the result is the glob match of the lower-cased
\* target against the lower-cased pattern; with an unknown or empty match type it is
\* that glob match when the pattern contains a * and the equality of the lower-cased
\* texts otherwise.
C16_WildcardIsGlob ==
  Matched =>
    LET kind == to_lowercase(trim(match_call.match_type))
        target_lower == to_lowercase(match_call.target)
        pattern_lower == to_lowercase(match_call.pattern)
        result == Unwrap(match_result)
    IN  /\ kind = TypeWildcard => (result <=> GlobMatches(target_lower, pattern_lower))
        /\ kind \notin KnownTypes =>
             IF Contains(match_call.pattern, "*")
             THEN result <=> GlobMatches(target_lower, pattern_lower)
             ELSE result <=> (target_lower = pattern_lower)

(***************************************************************************)
(* Properties of the expansion of reference ranges                         *)
(***************************************************************************)
Expanded == op = "expand_reference"

\* the ranges PREFIXs-PREFIXe the key spells, as <<prefix, s, e>>
RangesOf(key) ==
  { r \in (UpperChars \X (0..9) \X (0..9)) :
      key = <<r[1]>> \o format_usize(r[2]) \o <<"-">> \o <<r[1]>> \o format_usize(r[3]) }

IsInvertedRange(key) == \E r \in RangesOf(key) : r[3] < r[2]

\* what C17 puts in the place of one row: the row itself, or one entry per number of
\* the range with the key PREFIXn
ExpectedFor(pr, idx) ==
  LET key == get_ref(pr, idx)
  IN  IF RangesOf(key) = {} THEN << [copied |-> TRUE, row |-> pr.rows[idx + 1]] >>
      ELSE LET r == CHOOSE r \in RangesOf(key) : TRUE
           IN  [k \in 1..(r[3] - r[2] + 1) |->
                  [copied |-> FALSE, key |-> <<r[1]>> \o format_usize(r[2] + k - 1)]]

RECURSIVE ExpectedFrom(_, _)
ExpectedFrom(pr, idx) ==
  IF idx >= Len(pr.rows) THEN <<>>
  ELSE ExpectedFor(pr, idx) \o ExpectedFrom(pr, idx + 1)

HasInvertedRange(pr) ==
  \E i \in 0..(Len(pr.rows) - 1) : IsInvertedRange(get_ref(pr, i))

\* expand_reference fails whenever some row's key is an inverted range, wherever the
\* row stands
ExpandFailsOnInvertedRange ==
  (Expanded /\ HasInvertedRange(parse)) => ~Unwrap(expanded).ok

\* C17: expand_reference fails when some row's key is a range whose end is smaller
\* than its start; otherwise it succeeds, every row whose key is a range
\* PREFIXs-PREFIXe is replaced by e-s+1 rows with the keys PREFIXs..PREFIXe in
\* ascending order, and every other row is passed through unchanged in place.
C17_ExpandReference ==
  Expanded =>
    IF HasInvertedRange(parse) THEN ~Unwrap(expanded).ok
    ELSE /\ Unwrap(expanded).ok
         /\ LET out == Unwrap(expanded).value
                expected == ExpectedFrom(parse, 0)
            IN  /\ Len(out.rows) = Len(expected)
                /\ \A j \in 1..Len(expected) :
                     IF expected[j].copied
                     THEN out.rows[j] = expected[j].row
                     ELSE get_ref(out, j - 1) = expected[j].key

(***************************************************************************)
(* Properties of the merge of rows of different lengths                    *)
(***************************************************************************)
\* C21: when the matched overlay row is longer than the base row, the merged row has
\* the overlay row's length and carries the extra overlay cells at their indices; when
\* it is shorter, the merged row has the base row's length and the base row's cells
\* past the overlay row's end.
C21_MergedRowLength ==
  Merged =>
    LET partners == Partners
    IN  \A i \in 1..Len(parse_a.rows) :
          IsSome(partners[i]) =>
            LET row_a == parse_a.rows[i]
                row_b == parse_b.rows[Unwrap(partners[i]) + 1]
                row == merged.rows[i]
            IN  /\ Len(row_b) > Len(row_a) =>
                     /\ Len(row) = Len(row_b)
                     /\ \A c \in (Len(row_a) + 1)..Len(row_b) : row[c] = row_b[c]
                /\ Len(row_b) < Len(row_a) =>
                     /\ Len(row) = Len(row_a)
                     /\ \A c \in (Len(row_b) + 1)..Len(row_a) : row[c] = row_a[c]

(***************************************************************************)
(* Properties of the role assignment of the classifier                     *)
(***************************************************************************)
\* the data rows build_bom_rows takes from the raw rows
DataRowsOf(rows) ==
  LET indexed_rows ==
        StripLeadingBlank([i \in 1..Len(rows) |-> [line |-> i - 1, row |-> rows[i]]])
      detected_start == detect_data_start(indexed_rows)
  IN  SubSeq(indexed_rows,
             (IF IsSome(detected_start) THEN Unwrap(detected_start) ELSE 0) + 1,
             Len(indexed_rows))

RoleKeys == {"ref", "part_no", "manufacturer"}

RoleLabel(role_key) ==
  CASE role_key = "ref" -> "Reference"
    [] role_key = "part_no" -> "PartNumber"
    [] role_key = "manufacturer" -> "Manufacturer"

CandidatesFor(analysis, role_key) ==
  CASE role_key = "ref" -> analysis.reference_candidates
    [] role_key = "part_no" -> analysis.part_candidates
    [] role_key = "manufacturer" -> analysis.manufacturer_candidates

\* the positions of the diagnostics about the detection of a role
RoleWarnings(pr, label) ==
  LET entries == Unwrap(pr.structured_errors)
  IN  {i \in 1..Len(entries) :
         /\ entries[i].message.kind \in {"role_not_detected", "role_candidates"}
         /\ entries[i].message.label = label}

\* C23: for each of ref, part_no and manufacturer, the role is assigned to the column
\* when exactly one column is a candidate; with no candidate or with several the role
\* is left out of column_roles and exactly one warning is recorded for it, which names
\* the candidates when there are several.
C23_RoleAssignment ==
  (Built /\ Unwrap(built).ok) =>
    LET pr == Unwrap(built).value
        analysis == analyze_columns(DataRowsOf(raw), Len(pr.columns))
        entries == Unwrap(pr.structured_errors)
    IN  \A role_key \in RoleKeys :
          LET candidates == CandidatesFor(analysis, role_key)
              warnings == RoleWarnings(pr, RoleLabel(role_key))
          IN  IF Len(candidates) = 1
              THEN /\ role_key \in DOMAIN pr.column_roles
                   /\ pr.column_roles[role_key] = <<col_id(candidates[1])>>
                   /\ warnings = {}
              ELSE /\ role_key \notin DOMAIN pr.column_roles
                   /\ Cardinality(warnings) = 1
                   /\ \A i \in warnings :
                        /\ entries[i].severity = "warning"
                        /\ IF candidates = <<>>
                           THEN entries[i].message.kind = "role_not_detected"
                           ELSE /\ entries[i].message.kind = "role_candidates"
                                /\ entries[i].message.columns =
                                     [k \in 1..Len(candidates) |-> candidates[k] + 1]

\* one role with a single candidate, one with several and one with none
C23_Witness ==
  /\ Built
  /\ Unwrap(built).ok
  /\ LET analysis == analyze_columns(DataRowsOf(raw), Len(Unwrap(built).value.columns))
     IN  /\ Len(analysis.reference_candidates) = 1
         /\ \E role_key \in RoleKeys : Len(CandidatesFor(analysis, role_key)) > 1
         /\ \E role_key \in RoleKeys : Len(CandidatesFor(analysis, role_key)) = 0

(***************************************************************************)
(* Properties of the candidate threshold of the classifier                 *)
(***************************************************************************)
LikeField(role_key) ==
  CASE role_key = "ref" -> "reference_like"
    [] role_key = "part_no" -> "part_like"
    [] role_key = "manufacturer" -> "manufacturer_like"

\* the columns the result shows to have been candidates of the role: the column the
\* role is assigned to, and the columns named by the warning about several candidates
ShownCandidates(pr, role_key) ==
  LET entries == Unwrap(pr.structured_errors)
  IN  {c \in 0..(Len(pr.columns) - 1) :
         \/ /\ role_key \in DOMAIN pr.column_roles
            /\ Contains(pr.column_roles[role_key], col_id(c))
         \/ \E i \in 1..Len(entries) :
              /\ entries[i].message.kind = "role_candidates"
              /\ entries[i].message.label = RoleLabel(role_key)
              /\ Contains(entries[i].message.columns, c + 1)}

\* C24: a column is a candidate for a role only if strictly more than half of its
\* non-empty values among the sampled data rows match the shape of the role; a column
\* of which exactly half of the values match is not a candidate.
C24_StrictMajority ==
  (Built /\ Unwrap(built).ok) =>
    LET pr == Unwrap(built).value
        data_rows == DataRowsOf(raw)
    IN  \A role_key \in RoleKeys :
          \A c \in ShownCandidates(pr, role_key) :
            LET stats == ColumnStats(data_rows, c)
            IN  stats[LikeField(role_key)] * 2 > stats.non_empty

(***************************************************************************)
(* Properties of the data rows of the classifier                           *)
(***************************************************************************)
NotBlankRows(rows) == {i \in 1..Len(rows) : ~AllBlank(rows[i])}

\* C25: the data rows are the raw rows after the first row that is not entirely blank
\* (the header candidate), up to the last row that is not entirely blank, in input
\* order and verbatim; row_numbers[i] is the 1-based position of rows[i] in the raw
\* input.
C25_DataRows ==
  (Built /\ Unwrap(built).ok) =>
    LET pr == Unwrap(built).value
        filled == NotBlankRows(raw)
        header == CHOOSE i \in filled : \A j \in filled : i <= j
        last == CHOOSE i \in filled : \A j \in filled : j <= i
    IN  /\ pr.rows = [k \in 1..(last - header) |-> raw[header + k]]
        /\ pr.row_numbers = [k \in 1..(last - header) |-> header + k]

(***************************************************************************)
(* Properties of the column order of the classifier                        *)
(***************************************************************************)
RoleIds(pr, role_key) ==
  IF role_key \in DOMAIN pr.column_roles THEN pr.column_roles[role_key] ELSE <<>>

\* the ids of a sequence, each at its first occurrence only
RECURSIVE FirstOccurrences(_, _)
FirstOccurrences(ids, listed) ==
  IF ids = <<>> THEN listed
  ELSE FirstOccurrences(Tail(ids),
                        IF Contains(listed, Head(ids)) THEN listed
                        ELSE Append(listed, Head(ids)))

\* C26: column_order lists every column id col-0..col-(n-1) exactly once: the columns
\* of ref, then of part_no, then of manufacturer, then of value, then the remaining
\* columns in ascending position.
C26_ColumnOrder ==
  (Built /\ Unwrap(built).ok) =>
    LET pr == Unwrap(built).value
        n == Len(pr.columns)
    IN  /\ Len(pr.column_order) = n
        /\ \A c \in 0..(n - 1) :
             Cardinality({k \in 1..n : pr.column_order[k] = col_id(c)}) = 1
        /\ pr.column_order =
             FirstOccurrences(RoleIds(pr, "ref") \o RoleIds(pr, "part_no")
                                \o RoleIds(pr, "manufacturer") \o RoleIds(pr, "value")
                                \o [k \in 1..n |-> col_id(k - 1)],
                              <<>>)

\* ref, part_no and manufacturer on three columns in another order than their
\* positions
C26_Witness ==
  /\ Built
  /\ Unwrap(built).ok
  /\ LET pr == Unwrap(built).value
     IN  /\ {"ref", "part_no", "manufacturer"} \subseteq DOMAIN pr.column_roles
         /\ pr.column_order = <<col_id(1), col_id(2), col_id(0)>>

(***************************************************************************)
(* Properties of the row validation of the classifier                      *)
(***************************************************************************)
\* the positions of the columns of a role
RoleIndices(pr, role_key) ==
  {c \in 0..(Len(pr.columns) - 1) : Contains(RoleIds(pr, role_key), col_id(c))}

\* the diagnostics recorded for a line
DiagnosticsOf(pr, line) ==
  LET entries == Unwrap(pr.structured_errors)
  IN  {entries[i] : i \in {j \in 1..Len(entries) : entries[j].row = Some(line)}}

\* C27: for each data row, an error is recorded for every ref column past the end of
\* the row; an empty reference key is recorded as a warning and not as an error; a
\* reference key of an earlier row is recorded as a warning; an empty part number is
\* recorded as a warning when part_no is resolved; every cell with an invalid
\* character is recorded as a warning, whether or not a role is resolved.
C27_RowValidation ==
  (Built /\ Unwrap(built).ok) =>
    LET pr == Unwrap(built).value
        refs == RoleIndices(pr, "ref")
        parts == RoleIndices(pr, "part_no")
    IN  \A i \in 1..Len(pr.rows) :
          LET row == pr.rows[i]
              found == DiagnosticsOf(pr, pr.row_numbers[i])
              key == get_ref(pr, i - 1)
          IN  /\ \A c \in refs :
                   c >= Len(row) =>
                     \E d \in found : d.severity = "error" /\ d.column = Some(c)
              /\ (refs # {} /\ key = <<>>) =>
                   /\ \E d \in found :
                        /\ d.severity = "warning"
                        /\ d.message.kind \in {"reference_empty", "reference_missing"}
                   /\ \A d \in found :
                        d.severity = "error" => Unwrap(d.column) >= Len(row)
              /\ (key # <<>> /\ \E j \in 1..(i - 1) : get_ref(pr, j - 1) = key) =>
                   \E d \in found :
                     d.severity = "warning" /\ d.message.kind = "reference_duplicate"
              /\ (parts # {} /\ \A c \in parts : c < Len(row) => IsBlank(row[c + 1])) =>
                   \E d \in found :
                     d.severity = "warning" /\ d.message.kind = "part_no_empty"
              /\ \A c \in 1..Len(row) :
                   IsSome(find_invalid_char(row[c])) =>
                     \E d \in found :
                       /\ d.severity = "warning"
                       /\ d.message.kind = "invalid_char"
                       /\ d.column = Some(c - 1)

(***************************************************************************)
(* Properties of the IPC names                                             *)
(***************************************************************************)
Named == op = "apply_ipc_names"

\* the names of the exception entries for a part number, compared without case
ExceptionNames(entries, part_no) ==
  {entries[k].output_name :
     k \in {j \in 1..Len(entries) :
              to_lowercase(entries[j].part_no) = to_lowercase(part_no)}}

\* the positions of the rules all of whose conditions match the row
MatchingRules(pr, row_idx, rules) ==
  {k \in 1..Len(rules) :
     \A c \in 1..Len(rules[k].conditions) :
       condition_matches(pr, row_idx, rules[k].conditions[c])}

LastOf(positions) == CHOOSE k \in positions : \A j \in positions : j <= k

CellOr(row, col_idx, default) == IF col_idx < Len(row) THEN row[col_idx + 1] ELSE default

ColumnIds(pr) == {pr.columns[c].id : c \in 1..Len(pr.columns)}

\* headers and columns have the same length, column_order lists each column id once,
\* and the roles name columns only
Consistent(pr) ==
  /\ Len(pr.headers) = Len(pr.columns)
  /\ Len(pr.column_order) = Len(pr.columns)
  /\ \A id \in ColumnIds(pr) :
       Cardinality({k \in 1..Len(pr.column_order) : pr.column_order[k] = id}) = 1
  /\ \A role \in DOMAIN pr.column_roles :
       \A k \in 1..Len(pr.column_roles[role]) : pr.column_roles[role][k] \in ColumnIds(pr)

\* C30: every dataset reached from a result of build_bom_rows by the merge, the
\* expansion, the split, the fill, the cleansing and the IPC names is structurally
\* consistent.
C30_StructurallyConsistent == (op = "pipeline") => Consistent(dataset)

====
